---- MODULE Spec2Model ----
(***************************************************************************)
(* Fertilizer-Tracker: the bill ledger (Bill, Fertilizer), the routes that *)
(* write it (add_bill, add_fertilizer, import_data) and the CSV export;    *)
(* the Expense, Field and Supplier tables with the routes that add to      *)
(* them; the dashboard (index), the admin dashboard, and the farming       *)
(* assistant behind the dashboard and the chat routes; the User table      *)
(* with register, login, logout and the admin's toggle_user_status, and    *)
(* the chat history of a session.                                          *)
(*                                                                         *)
(* Money is counted in paise (1/100 rupee): every price text of the model  *)
(* carries at most two fraction digits, so float() and '{:.2f}' are exact  *)
(* on it.  A date is a day number; a text field is a TLA+ string, except   *)
(* a price text, which is a tuple of characters so that it can be parsed.  *)
(***************************************************************************)
EXTENDS Integers, Sequences, FiniteSets, TLC

\* ------------------------------------------------------------------ bounds
\* Requests are served while their cost stays within MaxWork: 1 for a request
\* that only reads, 2 for one that writes, and 1 more for each entry or data
\* row it submits.
MaxWork == 5

Users == {1, 2}

\* ------------------------------------------------------------ Python values
None == <<>>
Some(x) == <<x>>

\* ------------------------------------------------------------------- dates
\* The texts '%Y-%m-%d' accepts, with the day each denotes.
DateTable == ("2025-01-15" :> 1) @@ ("2025-01-16" :> 2) @@ ("2025-01-17" :> 3)

\* datetime.now().date(): the day the requests are made on.
Today == 3

\* datetime.strptime(s, '%Y-%m-%d').date(): ValueError on any other text.
strptime(s) ==
    IF s \in DOMAIN DateTable
    THEN [ok |-> TRUE, date |-> DateTable[s]]
    ELSE [ok |-> FALSE, date |-> 0]

\* date.strftime('%Y-%m-%d'), and str(date) in an f-string.
strftime(d) == CHOOSE s \in DOMAIN DateTable : DateTable[s] = d

\* ------------------------------------------------------------------- texts
\* str.strip() on the bill numbers, names and emails of the model.
Padded ==
    (" BILL-001 " :> "BILL-001") @@ ("  " :> "") @@ (" Urea A" :> "Urea A")
    @@ (" asha@farm.in " :> "asha@farm.in")

\* str.lower() on the emails of the model.
Capitals == ("Asha@Farm.in" :> "asha@farm.in") @@ ("YashLawankar@Gmail.com" :> "yashlawankar@gmail.com")

lower(s) == IF s \in DOMAIN Capitals THEN Capitals[s] ELSE s

strip(s) == IF s \in DOMAIN Padded THEN Padded[s] ELSE s

DigitChars == <<"0", "1", "2", "3", "4", "5", "6", "7", "8", "9">>

IsDigit(c) == \E i \in 1..10 : DigitChars[i] = c

DigitVal(c) == (CHOOSE i \in 1..10 : DigitChars[i] = c) - 1

\* str.replace(old, '') for a one-character old.
Remove(cs, old) == SelectSeq(cs, LAMBDA c : c # old)

RECURSIVE LStrip(_)
LStrip(cs) == IF cs # <<>> /\ Head(cs) = " " THEN LStrip(Tail(cs)) ELSE cs

RECURSIVE RStrip(_)
RStrip(cs) ==
    IF cs # <<>> /\ cs[Len(cs)] = " " THEN RStrip(SubSeq(cs, 1, Len(cs) - 1)) ELSE cs

\* str.strip() on a tuple of characters.
StripChars(cs) == RStrip(LStrip(cs))

RECURSIVE DigitsVal(_)
\* The number a run of digits denotes.
DigitsVal(ds) ==
    IF ds = <<>> THEN 0 ELSE 10 * DigitsVal(SubSeq(ds, 1, Len(ds) - 1)) + DigitVal(ds[Len(ds)])

AllDigits(ds) == \A i \in 1..Len(ds) : IsDigit(ds[i])

\* float(text), in paise: surrounding blanks are ignored, then an optional
\* sign, digits, and an optional point with at most two digits after it; any
\* other text raises ValueError.
float(cs) ==
    LET t == StripChars(cs)
        neg == t # <<>> /\ Head(t) = "-"
        u == IF t # <<>> /\ Head(t) \in {"-", "+"} THEN Tail(t) ELSE t
        dots == {i \in 1..Len(u) : u[i] = "."}
        p == IF dots = {} THEN Len(u) + 1 ELSE CHOOSE i \in dots : TRUE
        whole == SubSeq(u, 1, p - 1)
        frac == SubSeq(u, p + 1, Len(u))
        ok == /\ Cardinality(dots) <= 1
              /\ AllDigits(whole) /\ AllDigits(frac)
              /\ Len(whole) + Len(frac) > 0
              /\ Len(frac) <= 2
        cents == IF Len(frac) = 0 THEN 0
                 ELSE IF Len(frac) = 1 THEN 10 * DigitVal(frac[1])
                 ELSE DigitsVal(frac)
        mag == 100 * DigitsVal(whole) + cents
    IN  IF ok THEN [ok |-> TRUE, val |-> IF neg THEN 0 - mag ELSE mag]
        ELSE [ok |-> FALSE, val |-> 0]

RECURSIVE Digits(_)
\* The decimal digits of n >= 0.
Digits(n) == IF n < 10 THEN <<DigitChars[n + 1]>> ELSE Digits(n \div 10) \o <<DigitChars[(n % 10) + 1]>>

\* f'{x:.2f}' of an amount in paise.
format2f(x) ==
    LET mag == IF x < 0 THEN 0 - x ELSE x
    IN  (IF x < 0 THEN <<"-">> ELSE <<>>)
        \o Digits(mag \div 100) \o <<".">>
        \o <<DigitChars[((mag % 100) \div 10) + 1], DigitChars[(mag % 10) + 1]>>

\* The first members of FERTILIZER_CATEGORIES' pairs.
FERTILIZER_CATEGORIES ==
    {"Urea", "DAP", "NPK", "MOP", "SSP", "Organic", "Micronutrients", "Liquid"}

\* str(e) of the exceptions the routes can meet.
ValueErrorFloat == "could not convert string to float"
ValueErrorDate == "time data does not match format '%Y-%m-%d'"
OperationalError == "(sqlite3.OperationalError) database is locked"
IntegrityError == "(sqlite3.IntegrityError) UNIQUE constraint failed: user.email"
PendingRollbackError == "This Session's transaction has been rolled back due to a previous exception during flush"

\* What the store can do to one request: nothing, fail its at-th explicit
\* db.session.flush(), fail the autoflush that loads the at-th
\* bill.fertilizers, or fail db.session.commit().
Fault(kind, at) == [kind |-> kind, at |-> at]

NoFault == Fault("none", 0)

\* A request with one Bill flushes once and loads once.
BillFaults == {NoFault, Fault("flush", 1), Fault("load", 1), Fault("commit", 0)}

ImportFaults == BillFaults \cup {Fault("flush", 2)}

\* ------------------------------------------------------------------ models
\* Bill(): total_amount defaults to 0.0, bill_number to NULL.
Bill(id, bill_number, purchase_date, user_id) ==
    [id |-> id, bill_number |-> bill_number, purchase_date |-> purchase_date,
     total_amount |-> 0, user_id |-> user_id]

Fertilizer(id, name, category, price, bill_id) ==
    [id |-> id, name |-> name, category |-> category, price |-> price, bill_id |-> bill_id]

\* bill.fertilizers: the rows of Fertilizer whose bill_id is the Bill's.
BillFertilizers(self, ferts) == SelectSeq(ferts, LAMBDA f : f.bill_id = self.id)

RECURSIVE SumPrices(_)
\* sum(f.price for f in ...)
SumPrices(fs) == IF fs = <<>> THEN 0 ELSE Head(fs).price + SumPrices(Tail(fs))

\* Bill.fertilizer_count
fertilizer_count(self, ferts) == Len(BillFertilizers(self, ferts))

\* A calculate_total that forgets the first item.
calculate_total_skips_first(self, ferts, readable) ==
    LET fs == BillFertilizers(self, ferts)
        total == IF readable /\ fs # <<>> THEN SumPrices(Tail(fs)) ELSE 0
    IN  [self |-> [self EXCEPT !.total_amount = total], ret |-> total]

\* Bill.calculate_total: readable is whether list(self.fertilizers) can be
\* read; the bare except turns a failed read into a total of 0.0.
calculate_total(self, ferts, readable) ==
    LET total == IF readable THEN SumPrices(BillFertilizers(self, ferts)) ELSE 0
    IN  [self |-> [self EXCEPT !.total_amount = total], ret |-> total]

NoCall == [called |-> FALSE, before |-> Bill(0, None, 0, 0), ferts |-> <<>>,
           readable |-> TRUE, ret |-> 0, after |-> Bill(0, None, 0, 0)]

\* The record kept of one calculate_total call.
Call(self, ferts, readable) ==
    LET r == calculate_total(self, ferts, readable)
    IN  [called |-> TRUE, before |-> self, ferts |-> ferts, readable |-> readable,
         ret |-> r.ret, after |-> r.self]

\* ----------------------------------------------------------------- session
\* db.session as one request sees it: the tables with the request's own
\* flushed rows, and whether its transaction is still usable.
Begin(bs, fs) == [bills |-> bs, fertilizers |-> fs, valid |-> TRUE]

\* A failure handler that keeps what the request had flushed.
rollback_keeps_flushed(committed, tx) == [committed EXCEPT !.bills = tx.bills, !.fertilizers = tx.fertilizers]

\* db.session.rollback(), and the session's removal at the end of a request
\* that raised: the store is what it was before the request.
rollback(committed, tx) == committed

flash(category, text, detail) == [category |-> category, text |-> text, detail |-> detail]

\* ---------------------------------------------------------------- add_bill
\* What the try block of add_bill, or the body of add_fertilizer, comes to:
\* the session, str(e) of the exception that left it ("" when the commit
\* went through), the items counted and the calculate_total call made.
Outcome(tx, raised, count, call) == [tx |-> tx, raised |-> raised, count |-> count, calc |-> call]

\* "fertilizer_prices[i] ... else 0.0": the price of entry i.
EntryPrice(form, i) ==
    IF i <= Len(form.prices) /\ form.prices[i] # <<>>
    THEN float(form.prices[i])
    ELSE [ok |-> TRUE, val |-> 0]

\* "fertilizer_categories[i] ... else 'Urea'"
EntryCategory(form, i) == IF i <= Len(form.categories) THEN form.categories[i] ELSE "Urea"

\* The body of the loop for a named entry whose price is parsed.
AddBillItem(st, form, i, bill_id, parsed) ==
    IF ~parsed.ok
    THEN [st EXCEPT !.raised = ValueErrorFloat]
    ELSE [st EXCEPT !.count = @ + 1,
                    !.fertilizers = Append(@, Fertilizer(Len(st.fertilizers) + 1,
                                                         strip(form.names[i]),
                                                         EntryCategory(form, i),
                                                         parsed.val, bill_id))]

RECURSIVE AddBillItems(_, _, _, _)
\* The loop over fertilizer_name[]: st is [fertilizers, count, raised]; the
\* entry at i is skipped when its name is blank, and float() of its price
\* ends the loop with ValueError.
AddBillItems(st, form, i, bill_id) ==
    IF i > Len(form.names) \/ st.raised # "" THEN st
    ELSE IF strip(form.names[i]) = "" THEN AddBillItems(st, form, i + 1, bill_id)
    ELSE AddBillItems(AddBillItem(st, form, i, bill_id, EntryPrice(form, i)), form, i + 1, bill_id)

\* db.session.commit() of a request that has totalled its Bill with call.
Commit(tx, count, call, fault) ==
    IF ~tx.valid THEN Outcome(tx, PendingRollbackError, count, call)
    ELSE IF fault.kind = "commit" THEN Outcome(tx, OperationalError, count, call)
    ELSE Outcome(tx, "", count, call)

\* bill.calculate_total() and the commit: loading bill.fertilizers
\* autoflushes, and a failed autoflush leaves the transaction unusable.
TotalAndCommit(tx, id, count, call, fault) ==
    Commit([tx EXCEPT !.bills[id] = call.after, !.valid = call.readable], count, call, fault)

\* add_bill after its item loop.
AddBillLooped(tx, id, items, fault) ==
    IF items.raised # ""
    THEN Outcome([tx EXCEPT !.fertilizers = items.fertilizers], items.raised, items.count, NoCall)
    ELSE TotalAndCommit([tx EXCEPT !.fertilizers = items.fertilizers], id, items.count,
                        Call(tx.bills[id], items.fertilizers, fault # Fault("load", 1)), fault)

\* add_bill from "bill = Bill()" on, the purchase date parsed.
AddBillDated(tx, user_id, form, fault, bill) ==
    IF fault = Fault("flush", 1)
    THEN Outcome([tx EXCEPT !.valid = FALSE], OperationalError, 0, NoCall)
    ELSE AddBillLooped([tx EXCEPT !.bills = Append(@, bill)], bill.id,
                       AddBillItems([fertilizers |-> tx.fertilizers, count |-> 0, raised |-> ""],
                                    form, 1, bill.id),
                       fault)

\* bill.bill_number = bill_number if bill_number else None
BillNumber(bill_number) == IF bill_number # "" THEN Some(bill_number) ELSE None

\* The try block of add_bill, up to and including db.session.commit().
AddBillTry(committed, user_id, form, fault) ==
    IF form.purchase_date # "" /\ ~strptime(form.purchase_date).ok
    THEN Outcome(Begin(committed.bills, committed.fertilizers), ValueErrorDate, 0, NoCall)
    ELSE AddBillDated(Begin(committed.bills, committed.fertilizers), user_id, form, fault,
                      Bill(Len(committed.bills) + 1, BillNumber(strip(form.bill_number)),
                           IF form.purchase_date # "" THEN strptime(form.purchase_date).date
                           ELSE Today,
                           user_id))

\* ---------------------------------------------------------- add_fertilizer
\* FertilizerForm.validate_on_submit(): name and price are DataRequired, the
\* category is one of the choices, the price a number that is at least 0.
FertilizerFormValid(form, parsed) ==
    /\ form.name # ""
    /\ form.category \in FERTILIZER_CATEGORIES
    /\ parsed.ok
    /\ parsed.val >= 0
    /\ parsed.val # 0

\* add_fertilizer after its flush: the one item is added, the Bill totalled
\* and the session committed.
AddFertilizerFlushed(tx, id, form, price, fault) ==
    TotalAndCommit([tx EXCEPT !.fertilizers =
                        Append(@, Fertilizer(Len(tx.fertilizers) + 1, form.name,
                                             IF form.category # "" THEN form.category
                                             ELSE "Urea",
                                             IF price # 0 THEN price ELSE 0, id))],
                   id, 1,
                   Call(tx.bills[id],
                        Append(tx.fertilizers,
                               Fertilizer(Len(tx.fertilizers) + 1, form.name,
                                          IF form.category # "" THEN form.category ELSE "Urea",
                                          IF price # 0 THEN price ELSE 0, id)),
                        fault # Fault("load", 1)),
                   fault)

\* The body of add_fertilizer under a valid form: a Bill dated today with
\* one item. Nothing catches an exception here: raised is what leaves the
\* view.
AddFertilizerRun(committed, user_id, form, price, fault) ==
    IF fault = Fault("flush", 1)
    THEN Outcome([Begin(committed.bills, committed.fertilizers) EXCEPT !.valid = FALSE],
                 OperationalError, 0, NoCall)
    ELSE AddFertilizerFlushed(Begin(Append(committed.bills,
                                           Bill(Len(committed.bills) + 1, None, Today, user_id)),
                                    committed.fertilizers),
                              Len(committed.bills) + 1, form, price, fault)

\* ------------------------------------------------------------- import_data
\* A cell of a header row is one opaque symbol.
ExportHeader ==
    <<"Purchase Date", "Bill Number", "Fertilizer Name", "Category",
      <<"Price">>, <<"Bill Total">>, <<"Items in Bill">>>>

\* The header download_sample_csv writes.
SampleHeader == <<"Purchase Date", "Bill Number", "Fertilizer Name", "Category", <<"Price">>>>

\* The state of the row loop before its first row.
ImportStart(committed) ==
    [bills |-> committed.bills, fertilizers |-> committed.fertilizers, valid |-> TRUE,
     current_bill |-> 0, current_bill_key |-> None,
     bills_created |-> 0, imported_count |-> 0, errors |-> <<>>,
     raised |-> "", flushes |-> 0, loads |-> 0, calc |-> NoCall]

\* The state after a calculate_total call on the Bill in progress.
ImportCalculated(st, call) ==
    [st EXCEPT !.bills[st.current_bill] = call.after, !.valid = call.readable,
               !.loads = @ + 1, !.calc = call]

\* current_bill.calculate_total() inside the request: loading
\* current_bill.fertilizers autoflushes, and a failed autoflush leaves the
\* transaction unusable.
ImportCalculate(st, fault) ==
    ImportCalculated(st, Call(st.bills[st.current_bill], st.fertilizers,
                              st.valid /\ fault # Fault("load", st.loads + 1)))

\* current_bill = Bill() ... db.session.flush(); bills_created += 1
ImportAddBill(st, bill, bill_key, fault) ==
    IF ~st.valid
    THEN [st EXCEPT !.raised = PendingRollbackError]
    ELSE IF fault = Fault("flush", st.flushes + 1)
    THEN [st EXCEPT !.raised = OperationalError, !.valid = FALSE]
    ELSE [st EXCEPT !.bills = Append(@, bill), !.current_bill = bill.id,
                    !.flushes = @ + 1, !.bills_created = @ + 1,
                    !.current_bill_key = Some(bill_key)]

\* "Create new bill if needed": the previous Bill is totalled, the new one
\* added and flushed.
ImportNewBill(st, user_id, bill_number, purchase_date, bill_key, fault) ==
    ImportAddBill(IF st.current_bill # 0 THEN ImportCalculate(st, fault) ELSE st,
                  Bill(Len(st.bills) + 1, BillNumber(bill_number), purchase_date, user_id),
                  bill_key, fault)

\* A grouping key that leaves the purchase date out.
BillKey_number_only(purchase_date, bill_number) == bill_number

\* bill_key = f"{purchase_date}_{bill_number}"
BillKey(purchase_date, bill_number) == strftime(purchase_date) \o "_" \o bill_number

\* "Add fertilizer to current bill"
ImportAddFertilizer(st, name, category, price) ==
    IF st.raised # "" \/ name = "" THEN st
    ELSE [st EXCEPT !.imported_count = @ + 1,
                    !.fertilizers = Append(@, Fertilizer(Len(st.fertilizers) + 1, name, category,
                                                         price, st.current_bill))]

\* The Bills of the session that carry this user, date and bill number.
BillsWithKey(st, user_id, bill_number, purchase_date) ==
    {i \in 1..Len(st.bills) :
        /\ st.bills[i].user_id = user_id
        /\ st.bills[i].purchase_date = purchase_date
        /\ st.bills[i].bill_number = BillNumber(bill_number)}

\* A grouping that looks the key up among the Bills already there, and adds
\* the row to the one it finds.
ImportGroup_by_key(st, user_id, fault, bill_number, name, category, price, purchase_date) ==
    ImportAddFertilizer(
        IF BillsWithKey(st, user_id, bill_number, purchase_date) # {}
        THEN [st EXCEPT !.current_bill =
                            CHOOSE i \in BillsWithKey(st, user_id, bill_number, purchase_date) : TRUE,
                        !.current_bill_key = Some(BillKey(purchase_date, bill_number))]
        ELSE ImportNewBill(st, user_id, bill_number, purchase_date,
                           BillKey(purchase_date, bill_number), fault),
        name, category, price)

\* A grouping that passes over a row without an item name before it looks
\* at the key.
ImportGroup_named_only(st, user_id, fault, bill_number, name, category, price, purchase_date) ==
    IF name = "" THEN st
    ELSE ImportAddFertilizer(
             IF st.current_bill_key # Some(BillKey(purchase_date, bill_number))
             THEN ImportNewBill(st, user_id, bill_number, purchase_date,
                                BillKey(purchase_date, bill_number), fault)
             ELSE st,
             name, category, price)

\* The row from "Create bill key for grouping" on.
ImportGroup(st, user_id, fault, bill_number, name, category, price, purchase_date) ==
    ImportAddFertilizer(
        IF st.current_bill_key # Some(BillKey(purchase_date, bill_number))
        THEN ImportNewBill(st, user_id, bill_number, purchase_date,
                           BillKey(purchase_date, bill_number), fault)
        ELSE st,
        name, category, price)

\* A handler that numbers the rows from 1.
ImportReject_from_one(st, row_num, detail) ==
    [st EXCEPT !.errors = Append(@, [row |-> row_num - 1, detail |-> detail])]

\* except (ValueError, IndexError) as e: errors.append(f'Row {row_num}: {str(e)}')
ImportReject(st, row_num, detail) ==
    [st EXCEPT !.errors = Append(@, [row |-> row_num, detail |-> detail])]

\* A fallback to the first day of DateTable instead of today.
ImportDate_first_day(purchase_date_str) ==
    IF strptime(purchase_date_str).ok THEN strptime(purchase_date_str).date ELSE 1

\* "Parse date": a text that is no date stands for today.
ImportDate(purchase_date_str) ==
    IF strptime(purchase_date_str).ok THEN strptime(purchase_date_str).date ELSE Today

\* The row's fields read, its price parsed.
ImportFields(st, row_num, user_id, fault, purchase_date_str, bill_number, name, category, parsed) ==
    IF ~parsed.ok THEN ImportReject(st, row_num, ValueErrorFloat)
    ELSE ImportGroup(st, user_id, fault, bill_number, name, category, parsed.val,
                     ImportDate(purchase_date_str))

\* A loop in which a short row ends the Bill in progress.
ImportShortRow_ends_bill(st, row_num) == [st EXCEPT !.current_bill_key = None]

\* A loop without the length test: row[2] of a short row raises IndexError.
ImportShortRow_reports(st, row_num) == ImportReject(st, row_num, "list index out of range")

\* A row for which "if len(row) >= 4" is false: nothing is done.
ImportShortRow(st, row_num) == st

\* A category taken as the file gives it.
ImportCategory_unchecked(text) == strip(text)

\* category = row[3].strip() if ... in FERTILIZER_CATEGORIES else 'Urea'
ImportCategory(text) == IF strip(text) \in FERTILIZER_CATEGORIES THEN strip(text) ELSE "Urea"

\* A price that has to be there: row[4] of a row of 4 fields raises IndexError.
ImportPrice_required(row) ==
    IF Len(row) > 4
    THEN float(StripChars(Remove(Remove(row[5], "₹"), ",")))
    ELSE [ok |-> FALSE, val |-> 0]

\* price = float(row[4].replace('₹', '').replace(',', '').strip()) if len(row) > 4 else 0.0
ImportPrice(row) ==
    IF Len(row) > 4
    THEN float(StripChars(Remove(Remove(row[5], "₹"), ",")))
    ELSE [ok |-> TRUE, val |-> 0]

\* One pass of "for row_num, row in enumerate(csv_input, start=2)".
ImportRow(st, row_num, row, user_id, fault) ==
    IF Len(row) < 4 THEN ImportShortRow(st, row_num)
    ELSE ImportFields(st, row_num, user_id, fault, strip(row[1]), strip(row[2]), strip(row[3]),
                      ImportCategory(row[4]), ImportPrice(row))

RECURSIVE ImportLoop(_, _, _, _, _)
\* The row loop over file, whose first row (the header) next() has taken:
\* row_num is the row's place in the file. An exception other than
\* ValueError and IndexError ends the loop and the request.
ImportLoop(st, file, row_num, user_id, fault) ==
    IF row_num > Len(file) \/ st.raised # "" THEN st
    ELSE ImportLoop(ImportRow(st, row_num, file[row_num], user_id, fault),
                    file, row_num + 1, user_id, fault)

\* "Calculate total for last bill" left out.
ImportFinish_forgets_last(st, fault) == st

\* "Calculate total for last bill": after the loop, the Bill in progress is
\* totalled.
ImportFinish(st, fault) ==
    IF st.raised = "" /\ st.current_bill # 0 THEN ImportCalculate(st, fault) ELSE st

\* db.session.commit() at the end of import_data: st is the loop's state,
\* unhandled the exception that left the view from inside the loop,
\* commit_error the one the commit raised.
ImportCommit(st, fault) ==
    [st |-> st,
     unhandled |-> st.raised,
     commit_error |-> IF st.raised # "" THEN ""
                      ELSE IF ~st.valid THEN PendingRollbackError
                      ELSE IF fault.kind = "commit" THEN OperationalError
                      ELSE ""]

\* import_data under a valid form, up to and including db.session.commit().
ImportRun(committed, user_id, file, fault) ==
    ImportCommit(ImportFinish(ImportLoop(ImportStart(committed), file, 2, user_id, fault), fault),
                 fault)

\* ------------------------------------------------------------- export_data
\* A row whose item count is that of the whole Fertilizer table.
ExportRow_counts_all(bill, fertilizer, ferts) ==
    <<strftime(bill.purchase_date),
      IF bill.bill_number # None THEN bill.bill_number[1] ELSE "BILL-" \o ToString(bill.id),
      fertilizer.name, fertilizer.category,
      format2f(fertilizer.price), format2f(bill.total_amount),
      Digits(Len(ferts))>>

\* The row export_data writes for one Fertilizer of one Bill.
ExportRow(bill, fertilizer, ferts) ==
    <<strftime(bill.purchase_date),
      IF bill.bill_number # None THEN bill.bill_number[1] ELSE "BILL-" \o ToString(bill.id),
      fertilizer.name, fertilizer.category,
      format2f(fertilizer.price), format2f(bill.total_amount),
      Digits(fertilizer_count(bill, ferts))>>

RECURSIVE ExportRows(_, _, _)
\* "for bill in bills: for fertilizer in bill.fertilizers: writer.writerow"
ExportRows(order, bs, ferts) ==
    IF order = <<>> THEN <<>>
    ELSE LET bill == bs[Head(order)]
             fs == BillFertilizers(bill, ferts)
         IN  [i \in 1..Len(fs) |-> ExportRow(bill, fs[i], ferts)]
             \o ExportRows(Tail(order), bs, ferts)

\* Bill.query.filter_by(user_id=...).order_by(Bill.purchase_date.desc()).all():
\* the ids of the user's Bills in any order that has no earlier purchase
\* date before a later one (the order among equal dates is the store's).
BillQueryOrders(bs, user_id) ==
    LET ids == {i \in 1..Len(bs) : bs[i].user_id = user_id}
        n == Cardinality(ids)
    IN  {o \in [1..n -> ids] :
            /\ \A i, j \in 1..n : i # j => o[i] # o[j]
            /\ \A i, j \in 1..n : i < j => bs[o[i]].purchase_date >= bs[o[j]].purchase_date}

\* ------------------------------------------------ Expense, Field, Supplier
\* The columns of Expense the dashboard reads, and its links to a Supplier
\* and a Field, which a new Expense does not have.
Expense(id, description, category, total_amount, expense_date, user_id) ==
    [id |-> id, description |-> description, category |-> category,
     total_amount |-> total_amount, expense_date |-> expense_date, user_id |-> user_id,
     supplier_id |-> None, field_id |-> None]

\* Field(): is_active defaults to True; area_acres is None or Some(acres).
Field(id, name, area_acres, user_id) ==
    [id |-> id, name |-> name, area_acres |-> area_acres, is_active |-> TRUE,
     user_id |-> user_id]

\* Supplier(): is_active defaults to True.
Supplier(id, name, user_id) == [id |-> id, name |-> name, is_active |-> TRUE, user_id |-> user_id]

\* The names of COMPREHENSIVE_EXPENSE_CATEGORIES, the choices of the
\* expense form's category.
EXPENSE_CATEGORIES ==
    {"fertilizers", "seeds", "labor", "equipment", "crop_protection", "irrigation",
     "land", "transport", "marketing", "utilities"}

\* A request that adds one row commits once.
RowFaults == {NoFault, Fault("commit", 0)}

\* ComprehensiveExpenseForm.validate_on_submit(): DataRequired wants a true
\* value, so a total of 0 is refused like a missing one.
ExpenseFormValid(form) ==
    /\ form.description # ""
    /\ form.category \in EXPENSE_CATEGORIES
    /\ form.total_amount # None /\ form.total_amount[1] > 0
    /\ form.expense_date # ""

\* The try block of add_comprehensive_expense.
AddExpenseTry(es, user_id, form, fault) ==
    IF ~strptime(form.expense_date).ok THEN [expenses |-> es, raised |-> ValueErrorDate]
    ELSE IF fault.kind = "commit" THEN [expenses |-> es, raised |-> OperationalError]
    ELSE [expenses |-> Append(es, [Expense(Len(es) + 1, form.description, form.category,
                                           form.total_amount[1],
                                           strptime(form.expense_date).date, user_id)
                                      EXCEPT !.supplier_id = form.supplier_id,
                                             !.field_id = form.field_id]),
          raised |-> ""]

\* What SelectField.pre_validate does with the choices '' and the ids of a
\* user's rows: "compare" is a WTForms that compares the data with the value
\* of each choice, "coerce" one that first passes the value through the
\* field's coerce, which raises AttributeError on an id (an int has no
\* isdigit). Optional() lets an empty selection through in both.
WTForms == {"compare", "coerce"}

\* A field that takes any selection.
SelectOutcome_unchecked(data, choices, wtforms) == "valid"

SelectOutcome(data, choices, wtforms) ==
    IF data = None THEN "valid"
    ELSE IF wtforms = "compare" THEN (IF data[1] \in choices THEN "valid" ELSE "invalid")
    ELSE IF choices = {} THEN "invalid"
    ELSE "raise"

\* FieldForm.validate_on_submit(): the area is optional, and not negative.
FieldFormValid(form) ==
    /\ form.name # ""
    /\ form.area_acres = None \/ form.area_acres[1] >= 0

\* The try block of add_field.
AddFieldTry(fs, user_id, form, fault) ==
    IF fault.kind = "commit" THEN [fields |-> fs, raised |-> OperationalError]
    ELSE [fields |-> Append(fs, Field(Len(fs) + 1, form.name, form.area_acres, user_id)),
          raised |-> ""]

\* SupplierForm.validate_on_submit()
SupplierFormValid(form) == form.name # ""

\* The try block of add_supplier.
AddSupplierTry(ss, user_id, form, fault) ==
    IF fault.kind = "commit" THEN [suppliers |-> ss, raised |-> OperationalError]
    ELSE [suppliers |-> Append(ss, Supplier(Len(ss) + 1, form.name, user_id)), raised |-> ""]

\* ------------------------------------------------------------------ queries
\* A query that leaves the user_id filter out.
filter_by_nothing(rows, user_id) == 1..Len(rows)

\* Model.query.filter_by(user_id=user_id).all(): the ids of the user's rows.
filter_by(rows, user_id) == {i \in 1..Len(rows) : rows[i].user_id = user_id}

\* Model.query.filter_by(user_id=user_id, is_active=True).all()
filter_by_active(rows, user_id) == {i \in filter_by(rows, user_id) : rows[i].is_active}

\* The orders of the Expenses at the ids of S that begin with one of the
\* latest and go on with an order of the rest.
RECURSIVE LatestFirst(_, _)
LatestFirst(es, S) ==
    IF S = {} THEN {<<>>}
    ELSE UNION {{<<x>> \o o : o \in LatestFirst(es, S \ {x})} :
                   x \in {y \in S : \A z \in S : es[y].expense_date >= es[z].expense_date}}

\* Expense.query.filter_by(user_id=...).order_by(Expense.expense_date.desc()).all():
\* the ids of the user's Expenses in any order that has no earlier date before
\* a later one.
ExpenseQueryOrders(es, user_id) == LatestFirst(es, filter_by(es, user_id))

\* The rows of a table at the ids of order, in that order.
Rows(table, order) == [i \in DOMAIN order |-> table[order[i]]]

\* The ids of a set of rows, in id order.
RECURSIVE InIdOrder(_)
InIdOrder(S) ==
    IF S = {} THEN <<>>
    ELSE InIdOrder(S \ {CHOOSE m \in S : \A x \in S : x <= m})
         \o <<CHOOSE m \in S : \A x \in S : x <= m>>

\* -------------------------------------------------- the farming assistant
\* What the collaborator does with one request: farming_assistant is None
\* when its module could not be imported; otherwise generate_content
\* answers with a text, answers with no text, or raises (a timeout included).
AIReplies ==
    {[installed |-> FALSE, kind |-> "none"], [installed |-> TRUE, kind |-> "text"],
     [installed |-> TRUE, kind |-> "empty"], [installed |-> TRUE, kind |-> "raise"]}

\* response.text of a reply that has one.
ReplyText == "Reduce urea by a tenth."

\* markdown.markdown(text, ...)
markdown(text) == "<p>" \o text \o "</p>"

AnalysisUnable == "Unable to analyze expenses at this time."
AnalysisTrouble == "I'm having trouble analyzing your expenses right now. Please try again later."
AdviceUnable == "I couldn't process your question right now. Please try again."
AdviceTrouble == "I'm having trouble providing advice right now. Please try again later."
AdviceOffTopic == "I'm a specialized AI assistant focused on helping Indian farmers"

\* The month of a day of DateTable.
MonthOf(d) == 1

\* Whether the try block of analyze_expenses raises before or in the call of
\* the collaborator: date.today().replace(month=month - 1) once there is an
\* Expense and the month is January, the sum of the areas once a Field has
\* none, and the call itself.
AnalyzeRaises(user_expenses, user_fields, reply) ==
    \/ user_expenses # <<>> /\ MonthOf(Today) - 1 \notin 1..12
    \/ \E i \in DOMAIN user_fields : user_fields[i].area_acres = None
    \/ reply.kind = "raise"

\* analyze_expenses without its try: the exception reaches the caller.
analyze_expenses_unguarded(user_expenses, user_fields, reply) ==
    IF AnalyzeRaises(user_expenses, user_fields, reply)
    THEN [raised |-> TRUE, text |-> ""]
    ELSE [raised |-> FALSE, text |-> IF reply.kind = "text" THEN ReplyText ELSE AnalysisUnable]

\* FarmingAssistant.analyze_expenses
analyze_expenses(user_expenses, user_fields, reply) ==
    IF AnalyzeRaises(user_expenses, user_fields, reply)
    THEN [raised |-> FALSE, text |-> AnalysisTrouble]
    ELSE [raised |-> FALSE, text |-> IF reply.kind = "text" THEN ReplyText ELSE AnalysisUnable]

\* The questions put to the assistant, and is_farming_related on them.
Questions == {"", "How much urea per acre?", "Who won the match?"}

is_farming_related(question) == question = "How much urea per acre?"

\* FarmingAssistant.get_farming_advice
\* get_farming_advice without the topic check: every question goes to the
\* model.
get_farming_advice_unchecked(question, reply) ==
    IF reply.kind = "raise" THEN [raised |-> FALSE, called |-> TRUE, text |-> AdviceTrouble]
    ELSE [raised |-> FALSE, called |-> TRUE,
          text |-> IF reply.kind = "text" THEN markdown(ReplyText) ELSE AdviceUnable]

\* FarmingAssistant.get_farming_advice; called tells whether generate_content
\* was called.
get_farming_advice(question, reply) ==
    IF ~is_farming_related(question)
    THEN [raised |-> FALSE, called |-> FALSE, text |-> AdviceOffTopic]
    ELSE IF reply.kind = "raise" THEN [raised |-> FALSE, called |-> TRUE, text |-> AdviceTrouble]
    ELSE [raised |-> FALSE, called |-> TRUE,
          text |-> IF reply.kind = "text" THEN markdown(ReplyText) ELSE AdviceUnable]

\* ------------------------------------------------------- the chat history
\* One entry of session['chat_history'].
Message(type, message) == [type |-> type, message |-> message]

\* s[-n:]
Last(s, n) == IF Len(s) <= n THEN s ELSE SubSeq(s, Len(s) - n + 1, Len(s))

\* The messages the chat routes keep.
ChatHistoryLimit == 20

\* The two appends of an exchange.
ChatAdded(chat_history, question, ai_response) ==
    chat_history \o <<Message("user", question), Message("ai", ai_response)>>

\* An exchange stored without the cut.
ChatAppend_uncut(chat_history, question, ai_response) ==
    ChatAdded(chat_history, question, ai_response)

\* The two appends and chat_history[-20:].
ChatAppend(chat_history, question, ai_response) ==
    Last(ChatAdded(chat_history, question, ai_response), ChatHistoryLimit)

\* -------------------------------------------------------------------- index
\* sum(row.total_amount for row in rows)
RECURSIVE SumAmounts(_)
SumAmounts(rows) == IF rows = <<>> THEN 0 ELSE Head(rows).total_amount + SumAmounts(Tail(rows))

\* A dict as the list of its items in insertion order:
\* d[key] += amount if key in d, else d[key] = amount.
BreakdownAdd(cb, key, amount) ==
    IF \E i \in DOMAIN cb : cb[i].key = key
    THEN [i \in DOMAIN cb |->
             IF cb[i].key = key THEN [cb[i] EXCEPT !.amount = @ + amount] ELSE cb[i]]
    ELSE Append(cb, [key |-> key, amount |-> amount])

\* "Category-wise breakdown": every Expense under its own category.
RECURSIVE BreakdownExpenses(_, _)
BreakdownExpenses(cb, es) ==
    IF es = <<>> THEN cb
    ELSE BreakdownExpenses(BreakdownAdd(cb, Head(es).category, Head(es).total_amount), Tail(es))

\* A breakdown that files every Bill under the category of its first item.
RECURSIVE BreakdownBills_by_item(_, _, _)
BreakdownBills_by_item(cb, bs, ferts) ==
    IF bs = <<>> THEN cb
    ELSE BreakdownBills_by_item(
             BreakdownAdd(cb, IF BillFertilizers(Head(bs), ferts) = <<>> THEN "fertilizers"
                              ELSE BillFertilizers(Head(bs), ferts)[1].category,
                          Head(bs).total_amount),
             Tail(bs), ferts)

\* "Add legacy fertilizer data": every Bill under 'fertilizers'.
RECURSIVE BreakdownBills(_, _, _)
BreakdownBills(cb, bs, ferts) ==
    IF bs = <<>> THEN cb
    ELSE BreakdownBills(BreakdownAdd(cb, "fertilizers", Head(bs).total_amount), Tail(bs), ferts)

\* sum(field.area_acres for field in user_fields if field.area_acres)
RECURSIVE SumAcres(_)
SumAcres(user_fields) ==
    IF user_fields = <<>> THEN 0
    ELSE (IF Head(user_fields).area_acres # None /\ Head(user_fields).area_acres[1] # 0
          THEN Head(user_fields).area_acres[1] ELSE 0)
         + SumAcres(Tail(user_fields))

RECURSIVE GCD(_, _)
GCD(a, b) == IF b = 0 THEN a ELSE GCD(b, a % b)

\* a / b for b > 0, as a fraction in lowest terms.
TrueDiv(a, b) == <<a \div GCD(a, b), b \div GCD(a, b)>>

\* A guard that lets an area of 0 through: ZeroDivisionError.
CostPerAcre_unguarded(total_expenses, total_acres) ==
    IF total_acres >= 0
    THEN (IF total_acres = 0 THEN [raised |-> TRUE, value |-> <<0, 1>>]
          ELSE [raised |-> FALSE, value |-> TrueDiv(total_expenses, total_acres)])
    ELSE [raised |-> FALSE, value |-> <<0, 1>>]

\* cost_per_acre = total_expenses / total_acres if total_acres > 0 else 0
CostPerAcre(total_expenses, total_acres) ==
    IF total_acres > 0
    THEN [raised |-> FALSE, value |-> TrueDiv(total_expenses, total_acres)]
    ELSE [raised |-> FALSE, value |-> <<0, 1>>]

\* The entry of recent_activities for an Expense.
ExpenseActivity(expense) ==
    [type |-> "expense", description |-> expense.description, category |-> expense.category,
     amount |-> expense.total_amount, date |-> expense.expense_date]

\* The entry of recent_activities for a Fertilizer of a Bill.
FertilizerActivity(bill, fertilizer) ==
    [type |-> "fertilizer", description |-> fertilizer.name, category |-> fertilizer.category,
     amount |-> fertilizer.price, date |-> bill.purchase_date]

\* "for bill in bills[:3]: for fertilizer in bill.fertilizers: append"
RECURSIVE BillActivities(_, _)
BillActivities(bs, ferts) ==
    IF bs = <<>> THEN <<>>
    ELSE [i \in 1..Len(BillFertilizers(Head(bs), ferts)) |->
             FertilizerActivity(Head(bs), BillFertilizers(Head(bs), ferts)[i])]
         \o BillActivities(Tail(bs), ferts)

\* seq[:n]
Take(seq, n) == SubSeq(seq, 1, IF Len(seq) < n THEN Len(seq) ELSE n)

\* Where list.sort(key=date, reverse=True) puts x among the entries sorted so
\* far: behind every entry whose date is not earlier (the sort is stable).
RECURSIVE InsertByDate(_, _)
InsertByDate(sorted, x) ==
    IF sorted = <<>> THEN <<x>>
    ELSE IF Head(sorted).date >= x.date THEN <<Head(sorted)>> \o InsertByDate(Tail(sorted), x)
    ELSE <<x>> \o sorted

\* recent_activities.sort(key=lambda x: x['date'], reverse=True)
RECURSIVE SortByDateDesc(_)
SortByDateDesc(acts) ==
    IF acts = <<>> THEN <<>>
    ELSE InsertByDate(SortByDateDesc(SubSeq(acts, 1, Len(acts) - 1)), acts[Len(acts)])

\* Entries gathered from every Expense and every Bill.
Gathered_all(es, bs, ferts) ==
    [i \in 1..Len(es) |-> ExpenseActivity(es[i])] \o BillActivities(bs, ferts)

\* The entries gathered, before the sort.
Gathered(es, bs, ferts) ==
    [i \in 1..Len(Take(es, 5)) |-> ExpenseActivity(es[i])] \o BillActivities(Take(bs, 3), ferts)

\* A dashboard that leaves the sort out.
Recent_unsorted(es, bs, ferts) == Take(Gathered(es, bs, ferts), 8)

\* "Recent activities (expenses + bills)", "Sort by date", [:8]
Recent(es, bs, ferts) == Take(SortByDateDesc(Gathered(es, bs, ferts)), 8)

\* "AI Insights (if available)": the try around analyze_expenses leaves
\* ai_insights None when the call raises.
Insights(es, bs, user_fields, reply) ==
    IF reply.installed /\ (es # <<>> \/ bs # <<>>)
    THEN (IF analyze_expenses(es, user_fields, reply).raised THEN None
          ELSE Some(analyze_expenses(es, user_fields, reply).text))
    ELSE None

\* What index hands to the template, from the rows its queries returned.
DashboardOf(es, bs, ferts, user_fields, user_suppliers, reply) ==
    [total_expenses |-> SumAmounts(es) + SumAmounts(bs),
     category_breakdown |-> BreakdownBills(BreakdownExpenses(<<>>, es), bs, ferts),
     total_acres |-> SumAcres(user_fields),
     cost_per_acre |-> CostPerAcre(SumAmounts(es) + SumAmounts(bs), SumAcres(user_fields)),
     recent_activities |-> Recent(es, bs, ferts),
     total_fields |-> Len(user_fields),
     total_suppliers |-> Len(user_suppliers),
     total_comprehensive_expenses |-> Len(es),
     total_bills |-> Len(bs),
     ai_called |-> reply.installed /\ (es # <<>> \/ bs # <<>>),
     ai_insights |-> Insights(es, bs, user_fields, reply)]

\* The four tables index queries, as one value.
LedgerOf(bs, ferts, es, fs, ss) ==
    [bills |-> bs, fertilizers |-> ferts, expenses |-> es, fields |-> fs, suppliers |-> ss]

\* The ids index reads from each table, for the orders its queries return.
IndexReads(db, user_id, eorder, border) ==
    [expenses |-> {eorder[i] : i \in DOMAIN eorder},
     bills |-> {border[i] : i \in DOMAIN border},
     fields |-> filter_by_active(db.fields, user_id),
     suppliers |-> filter_by_active(db.suppliers, user_id),
     users |-> {}]

\* index for user_id on the store db.
Dashboard(db, user_id, eorder, border, reply) ==
    DashboardOf(Rows(db.expenses, eorder), Rows(db.bills, border), db.fertilizers,
                Rows(db.fields, InIdOrder(filter_by_active(db.fields, user_id))),
                Rows(db.suppliers, InIdOrder(filter_by_active(db.suppliers, user_id))),
                reply)

\* ---------------------------------------------------------- admin_dashboard
\* User(): is_user_active defaults to True.
User(id, email) == [id |-> id, email |-> email, is_user_active |-> TRUE]

ADMIN_EMAIL == "yashlawankar@gmail.com"

\* The id of the user whose email is_admin() names, in the user table the
\* ledger is looked at with.
Admin == 1

\* An is_admin that every user passes.
is_admin_anyone(user) == TRUE

\* User.is_admin
is_admin(user) == user.email = ADMIN_EMAIL

\* The entry of user_stats for one user.
UserStats(db, user_id) ==
    [total_expenses |-> SumAmounts(Rows(db.bills, InIdOrder(filter_by(db.bills, user_id)))),
     total_bills |-> Cardinality(filter_by(db.bills, user_id)),
     total_fertilizers |->
         Cardinality({i \in 1..Len(db.fertilizers) :
                         db.fertilizers[i].bill_id \in filter_by(db.bills, user_id)})]

\* What admin_dashboard hands to the template.
AdminDashboard(db) ==
    [user_stats |-> [u \in Users |-> UserStats(db, u)],
     total_platform_expenses |-> SumAmounts(db.bills),
     total_platform_bills |-> Len(db.bills)]

VARIABLES
    bills,        \* the Bill table, in id order
    fertilizers,  \* the Fertilizer table, in id order
    resp,         \* what the last request was given and what it answered
    calc,         \* the last calculate_total call of the last request
    work,         \* the cost of the requests served so far
    expenses,     \* the Expense table, in id order
    fields,       \* the Field table, in id order
    suppliers,    \* the Supplier table, in id order
    users,        \* the User table, in id order
    sessions,     \* the ids of the users who are logged in
    pending,      \* the registrations between their check and their commit
    chat_history, \* session['chat_history'] of the session of every user
    said          \* every message added to it since it was last cleared

vars == <<bills, fertilizers, resp, calc, work, expenses, fields, suppliers,
          users, sessions, pending, chat_history, said>>

accounts == <<users, sessions, pending>>

chats == <<chat_history, said>>

\* login_required alone.
Allowed_logged_in(u) == u \in sessions

\* login_required and active_user_required let a request of user u through.
Allowed(u) == u \in sessions /\ users[u].is_user_active

Committed == [bills |-> bills, fertilizers |-> fertilizers]

Ledger == LedgerOf(bills, fertilizers, expenses, fields, suppliers)

\* A request that reads no row.
NoReads == [bills |-> {}, expenses |-> {}, fields |-> {}, suppliers |-> {}, users |-> {}]

\* The dashboard of a user who has nothing.
NoDashboard == DashboardOf(<<>>, <<>>, <<>>, <<>>, <<>>, [installed |-> FALSE, kind |-> "none"])

NoResp ==
    [route |-> "", user |-> 0, status |-> "", flashes |-> <<>>, file |-> <<>>,
     first_bill |-> 0, first_fert |-> 0, bills_created |-> 0, imported_count |-> 0,
     errors |-> <<>>, csv |-> <<>>, fault |-> "none",
     read |-> NoReads, dashboard |-> NoDashboard, admin |-> AdminDashboard(LedgerOf(<<>>, <<>>, <<>>, <<>>, <<>>)),
     question |-> "", reply |-> "none", ai_response |-> None,
     email |-> "", target |-> 0, first_user |-> 0]

\* The admin and a farmer have registered and are logged in.
InitialUsers == <<User(1, ADMIN_EMAIL), User(2, "asha@farm.in")>>

Init ==
    /\ bills = <<>>
    /\ fertilizers = <<>>
    /\ resp = NoResp
    /\ calc = NoCall
    /\ work = 0
    /\ expenses = <<>>
    /\ fields = <<>>
    /\ suppliers = <<>>
    /\ users = InitialUsers
    /\ sessions = Users
    /\ pending = <<>>
    /\ chat_history = [u \in Users |-> <<>>]
    /\ said = [u \in Users |-> <<>>]

\* The forms posted to /add: the three lists of a form are read one by one.
BillFormOf(bill_number, purchase_date, names, categories, prices) ==
    [bill_number |-> bill_number, purchase_date |-> purchase_date,
     names |-> names, categories |-> categories, prices |-> prices]

BillForms ==
    {BillFormOf("", "", <<>>, <<>>, <<>>),
     BillFormOf("BILL-001", "2025-01-15", <<"Urea A">>, <<"Urea">>, <<<<"1", "0", "0">>>>),
     BillFormOf(" BILL-001 ", "2025-01-15", <<"Urea A", "DAP B">>, <<"Urea", "DAP">>,
                <<<<"1", "0", "0">>, <<"2", "0", "0", ".", "5", "0">>>>),
     BillFormOf("BILL-002", "2025-01-16", <<"Urea A", "DAP B">>, <<"Urea", "DAP">>,
                <<<<"1", "0", "0">>, <<"a", "b", "c">>>>),
     BillFormOf("BILL-002", "15/01/2025", <<"Urea A">>, <<"Urea">>, <<<<"1", "0", "0">>>>),
     BillFormOf("", "2025-01-16", <<"  ", " Urea A">>, <<"Urea", "Compost">>,
                <<<<"a", "b", "c">>, <<>>>>),
     BillFormOf("BILL-002", "", <<"Urea A">>, <<"Urea">>, <<<<"-", "5">>>>),
     BillFormOf("BILL-001", "2025-01-15", <<"Urea A", "DAP B">>, <<"DAP">>, <<<<"7", ".", "5">>>>)}

\* POST /add as user u.
add_bill(u, form, fault) ==
    \E r \in {AddBillTry(Committed, u, form, fault)} :
    \E db \in {IF r.raised = "" THEN r.tx ELSE rollback(Committed, r.tx)} :
        /\ Allowed(u)
        /\ work + 2 + Len(form.names) <= MaxWork
        /\ work' = work + 2 + Len(form.names)
        /\ bills' = db.bills
        /\ fertilizers' = db.fertilizers
        /\ calc' = r.calc
        /\ UNCHANGED <<expenses, fields, suppliers>>
        /\ UNCHANGED <<accounts, chats>>
        /\ resp' = [NoResp EXCEPT
                      !.route = "add_bill", !.user = u,
                      !.status = IF r.raised = "" THEN "ok" ELSE "failed",
                      !.first_bill = Len(bills), !.first_fert = Len(fertilizers),
                      !.imported_count = r.count,
                      !.fault = fault.kind,
                      !.flashes = IF r.raised = ""
                                  THEN <<flash("success", "Bill added successfully", "")>>
                                  ELSE <<flash("error", "Error adding bill: ", r.raised)>>]

\* The forms posted to /add_fertilizer.
FertilizerForms ==
    {[name |-> "Urea A", category |-> "Urea", price |-> <<"1", "0", "0">>],
     [name |-> "DAP B", category |-> "DAP", price |-> <<"-", "5">>],
     [name |-> "DAP B", category |-> "DAP", price |-> <<"0">>],
     [name |-> "", category |-> "Urea", price |-> <<"a", "b", "c">>]}

\* POST /add_fertilizer as user u: an invalid form changes nothing; an
\* exception leaves the view (status 500) and the session is discarded.
add_fertilizer(u, form, fault) ==
    \E parsed \in {float(form.price)} :
    \E valid \in {FertilizerFormValid(form, parsed)} :
    \E r \in {AddFertilizerRun(Committed, u, form, parsed.val, fault)} :
    \E db \in {IF ~valid THEN Committed
               ELSE IF r.raised = "" THEN r.tx ELSE rollback(Committed, r.tx)} :
        /\ Allowed(u)
        /\ work + 3 <= MaxWork
        /\ work' = work + 3
        /\ bills' = db.bills
        /\ fertilizers' = db.fertilizers
        /\ calc' = IF valid THEN r.calc ELSE NoCall
        /\ UNCHANGED <<expenses, fields, suppliers>>
        /\ UNCHANGED <<accounts, chats>>
        /\ resp' = [NoResp EXCEPT
                      !.route = "add_fertilizer", !.user = u,
                      !.status = IF ~valid THEN "invalid"
                                 ELSE IF r.raised = "" THEN "ok" ELSE "500",
                      !.first_bill = Len(bills), !.first_fert = Len(fertilizers),
                      !.imported_count = IF valid THEN r.count ELSE 0,
                      !.fault = IF valid THEN fault.kind ELSE "none",
                      !.flashes = IF valid /\ r.raised = ""
                                  THEN <<flash("success", "Fertilizer added successfully!", "")>>
                                  ELSE <<>>]

\* The data rows of the uploaded files.
ImportRows ==
    {<<"2025-01-15", "BILL-001", "Urea A", "Urea", <<"1", "0", "0", ".", "0", "0">>>>,
     <<"2025-01-15", " BILL-001 ", "DAP B", "DAP", <<" ", "₹", "2", "0", "0", ".", "0", "0">>>>,
     <<"2025-01-15", "BILL-002", "Urea A", "Compost", <<"-", "5", ".", "0", "0">>>>,
     <<"2025-01-15", "BILL-001">>,
     <<"2025-01-15", "BILL-001", "DAP B", "DAP", <<"a", "b", "c">>>>,
     <<"2025-01-16", "BILL-001", "", "Urea", <<"1", ",", "0", "0", "0", ".", "0", "0">>>>,
     <<"15/01/2025", "", "Urea A", "Urea">>,
     <<"2025-01-16", "BILL-002", "DAP B", "DAP", <<>>>>}

\* The data rows of the files a user uploads: user 1 any of them, every
\* other user a row with a bill number and one without.
ImportRowsOf(u) ==
    IF u = 1 THEN ImportRows
    ELSE {<<"2025-01-15", "BILL-001", "Urea A", "Urea", <<"1", "0", "0", ".", "0", "0">>>>,
          <<"15/01/2025", "", "Urea A", "Urea">>}

\* POST /import as user u with a file of a header and data rows. An
\* exception from inside the loop leaves the view (status 500) and the
\* session is discarded; one from the commit is caught.
import_data(u, rows, fault) ==
    \E r \in {ImportRun(Committed, u, <<SampleHeader>> \o rows, fault)} :
    \E db \in {IF r.unhandled = "" /\ r.commit_error = ""
               THEN [bills |-> r.st.bills, fertilizers |-> r.st.fertilizers]
               ELSE rollback(Committed, r.st)} :
        /\ Allowed(u)
        /\ work + 2 + Len(rows) <= MaxWork
        /\ work' = work + 2 + Len(rows)
        /\ bills' = db.bills
        /\ fertilizers' = db.fertilizers
        /\ calc' = r.st.calc
        /\ UNCHANGED <<expenses, fields, suppliers>>
        /\ UNCHANGED <<accounts, chats>>
        /\ resp' = [NoResp EXCEPT
                      !.route = "import_data", !.user = u, !.file = <<SampleHeader>> \o rows,
                      !.status = IF r.unhandled # "" THEN "500"
                                 ELSE IF r.commit_error # "" THEN "failed" ELSE "ok",
                      !.first_bill = Len(bills), !.first_fert = Len(fertilizers),
                      !.bills_created = r.st.bills_created,
                      !.imported_count = r.st.imported_count,
                      !.errors = r.st.errors,
                      !.fault = fault.kind,
                      !.flashes = IF r.unhandled # "" THEN <<>>
                                  ELSE IF r.commit_error # ""
                                  THEN <<flash("error", "Import failed: ", r.commit_error)>>
                                  ELSE (IF r.st.bills_created > 0
                                        THEN <<flash("success", "Successfully imported", "")>>
                                        ELSE <<>>)
                                       \o (IF r.st.errors # <<>>
                                           THEN <<flash("warning", "Errors in rows", "")>>
                                           ELSE <<>>)]

\* GET /export as user u.
export_data(u, order) ==
    /\ Allowed(u)
    /\ work + 1 <= MaxWork
    /\ work' = work + 1
    /\ resp' = [NoResp EXCEPT
                  !.route = "export_data", !.user = u, !.status = "ok",
                  !.read = [NoReads EXCEPT !.bills = {order[i] : i \in DOMAIN order}],
                  !.csv = <<ExportHeader>> \o ExportRows(order, bills, fertilizers)]
    /\ calc' = NoCall
    /\ UNCHANGED <<bills, fertilizers, expenses, fields, suppliers>>
    /\ UNCHANGED <<accounts, chats>>

\* The forms posted to /expenses/add, as WTForms hands their data over.
ExpenseForms ==
    {[description |-> "Urea bags", category |-> "fertilizers", total_amount |-> Some(5000),
      expense_date |-> "2025-01-16",
      supplier_id |-> None, field_id |-> None],
     [description |-> "Hybrid seed", category |-> "seeds", total_amount |-> Some(3000),
      expense_date |-> "2025-01-15",
      supplier_id |-> None, field_id |-> None],
     [description |-> "Hired hands", category |-> "labor", total_amount |-> Some(0),
      expense_date |-> "2025-01-15",
      supplier_id |-> None, field_id |-> None],
     [description |-> "Diesel", category |-> "transport", total_amount |-> Some(1000),
      expense_date |-> "15/01/2025",
      supplier_id |-> None, field_id |-> None]}

\* POST /expenses/add as user u: an invalid form changes nothing; an
\* exception of the try block is caught, rolled back and flashed, one of the
\* validation leaves the view (status 500).
add_comprehensive_expense(u, form, fault, wtforms) ==
    \E supplier \in {SelectOutcome(form.supplier_id, filter_by_active(suppliers, u), wtforms)} :
    \E field \in {SelectOutcome(form.field_id, filter_by_active(fields, u), wtforms)} :
    \E unhandled \in {supplier = "raise" \/ field = "raise"} :
    \E valid \in {~unhandled /\ ExpenseFormValid(form) /\ supplier = "valid" /\ field = "valid"} :
    \E r \in {AddExpenseTry(expenses, u, form, fault)} :
        /\ Allowed(u)
        /\ work + 3 <= MaxWork
        /\ work' = work + 3
        /\ expenses' = IF valid THEN r.expenses ELSE expenses
        /\ calc' = NoCall
        /\ resp' = [NoResp EXCEPT
                      !.route = "add_comprehensive_expense", !.user = u,
                      !.status = IF unhandled THEN "500"
                                 ELSE IF ~valid THEN "invalid"
                                 ELSE IF r.raised = "" THEN "ok" ELSE "failed",
                      !.fault = IF valid THEN fault.kind ELSE "none",
                      !.flashes = IF ~valid THEN <<>>
                                  ELSE IF r.raised = ""
                                  THEN <<flash("success", "Expense added successfully!", "")>>
                                  ELSE <<flash("error", "Error adding expense: ", r.raised)>>]
        /\ UNCHANGED <<bills, fertilizers, fields, suppliers>>
        /\ UNCHANGED <<accounts, chats>>

\* The forms posted to /fields/add.
FieldForms ==
    {[name |-> "North plot", area_acres |-> Some(2)],
     [name |-> "Pond side", area_acres |-> None],
     [name |-> "Fallow", area_acres |-> Some(0)],
     [name |-> "", area_acres |-> Some(0 - 1)]}

\* POST /fields/add as user u.
add_field(u, form, fault) ==
    \E valid \in {FieldFormValid(form)} :
    \E r \in {AddFieldTry(fields, u, form, fault)} :
        /\ Allowed(u)
        /\ work + 3 <= MaxWork
        /\ work' = work + 3
        /\ fields' = IF valid THEN r.fields ELSE fields
        /\ calc' = NoCall
        /\ resp' = [NoResp EXCEPT
                      !.route = "add_field", !.user = u,
                      !.status = IF ~valid THEN "invalid"
                                 ELSE IF r.raised = "" THEN "ok" ELSE "failed",
                      !.fault = IF valid THEN fault.kind ELSE "none",
                      !.flashes = IF ~valid THEN <<>>
                                  ELSE IF r.raised = ""
                                  THEN <<flash("success", "Field added successfully!", "")>>
                                  ELSE <<flash("error", "Error adding field: ", r.raised)>>]
        /\ UNCHANGED <<bills, fertilizers, expenses, suppliers>>
        /\ UNCHANGED <<accounts, chats>>

\* The forms posted to /suppliers/add.
SupplierForms == {[name |-> "Agro Depot"], [name |-> ""]}

\* POST /suppliers/add as user u.
add_supplier(u, form, fault) ==
    \E valid \in {SupplierFormValid(form)} :
    \E r \in {AddSupplierTry(suppliers, u, form, fault)} :
        /\ Allowed(u)
        /\ work + 3 <= MaxWork
        /\ work' = work + 3
        /\ suppliers' = IF valid THEN r.suppliers ELSE suppliers
        /\ calc' = NoCall
        /\ resp' = [NoResp EXCEPT
                      !.route = "add_supplier", !.user = u,
                      !.status = IF ~valid THEN "invalid"
                                 ELSE IF r.raised = "" THEN "ok" ELSE "failed",
                      !.fault = IF valid THEN fault.kind ELSE "none",
                      !.flashes = IF ~valid THEN <<>>
                                  ELSE IF r.raised = ""
                                  THEN <<flash("success", "Supplier added successfully!", "")>>
                                  ELSE <<flash("error", "Error adding supplier: ", r.raised)>>]
        /\ UNCHANGED <<bills, fertilizers, expenses, fields>>
        /\ UNCHANGED <<accounts, chats>>

\* GET / as user u: eorder and border are the orders the two queries return,
\* reply what the collaborator does if it is asked.
index(u, eorder, border, reply) ==
    \E d \in {Dashboard(Ledger, u, eorder, border, reply)} :
        /\ Allowed(u)
        /\ work + 1 <= MaxWork
        /\ work' = work + 1
        /\ calc' = NoCall
        /\ resp' = [NoResp EXCEPT
                      !.route = "index", !.user = u,
                      !.status = IF d.cost_per_acre.raised THEN "500" ELSE "ok",
                      !.reply = IF d.ai_called THEN reply.kind ELSE "none",
                      !.read = IndexReads(Ledger, u, eorder, border),
                      !.dashboard = d]
        /\ UNCHANGED <<bills, fertilizers, expenses, fields, suppliers>>
        /\ UNCHANGED <<accounts, chats>>

\* GET /admin as user u: admin_required turns everyone but the admin away
\* before the view runs.
admin_dashboard(u) ==
    /\ u \in sessions
    /\ work + 1 <= MaxWork
    /\ work' = work + 1
    /\ calc' = NoCall
    /\ resp' = IF is_admin(users[u])
               THEN [NoResp EXCEPT
                       !.route = "admin_dashboard", !.user = u, !.status = "ok",
                       !.read = [NoReads EXCEPT !.bills = 1..Len(bills),
                                                !.users = 1..Len(users)],
                       !.admin = AdminDashboard(Ledger)]
               ELSE [NoResp EXCEPT
                       !.route = "admin_dashboard", !.user = u, !.status = "redirect",
                       !.flashes = <<flash("error", "Access denied. Admin privileges required.", "")>>]
    /\ UNCHANGED <<bills, fertilizers, expenses, fields, suppliers>>
    /\ UNCHANGED <<accounts, chats>>

\* POST /ai/chat/widget as user u; the exchange is written to the chat
\* history of the user's session.
ai_chat_widget(u, question, reply) ==
    \E r \in {get_farming_advice(strip(question), reply)} :
        /\ Allowed(u)
        /\ work + 2 <= MaxWork
        /\ work' = work + 2
        /\ calc' = NoCall
        /\ resp' = IF strip(question) = ""
                   THEN [NoResp EXCEPT !.route = "ai_chat_widget", !.user = u, !.status = "400"]
                   ELSE IF ~reply.installed
                   THEN [NoResp EXCEPT !.route = "ai_chat_widget", !.user = u, !.status = "503",
                                       !.question = question]
                   ELSE [NoResp EXCEPT
                           !.route = "ai_chat_widget", !.user = u, !.question = question,
                           !.status = IF r.raised THEN "500" ELSE "ok",
                           !.reply = IF r.called THEN reply.kind ELSE "none",
                           !.read = [NoReads EXCEPT
                                       !.expenses = filter_by(expenses, u),
                                       !.fields = filter_by(fields, u),
                                       !.suppliers = filter_by(suppliers, u)],
                           !.ai_response = IF r.raised THEN None ELSE Some(r.text)]
        /\ chat_history' = IF strip(question) # "" /\ reply.installed /\ ~r.raised
                           THEN [chat_history EXCEPT
                                   ![u] = ChatAppend(@, strip(question), r.text)]
                           ELSE chat_history
        /\ said' = IF strip(question) # "" /\ reply.installed /\ ~r.raised
                   THEN [said EXCEPT ![u] = ChatAdded(@, strip(question), r.text)]
                   ELSE said
        /\ UNCHANGED <<bills, fertilizers, expenses, fields, suppliers>>
        /\ UNCHANGED accounts

\* GET or POST /ai/chat as user u: the form is valid when it has a question,
\* and the exchange is written to the chat history of the user's session.
ai_chat(u, question, reply) ==
    \E r \in {get_farming_advice(question, reply)} :
    \E asked \in {strip(question) # "" /\ reply.installed} :
        /\ Allowed(u)
        /\ work + 2 <= MaxWork
        /\ work' = work + 2
        /\ calc' = NoCall
        /\ resp' = IF asked
                   THEN [NoResp EXCEPT
                           !.route = "ai_chat", !.user = u, !.question = question,
                           !.status = "ok",
                           !.reply = IF r.called THEN reply.kind ELSE "none",
                           !.read = [NoReads EXCEPT
                                       !.expenses = filter_by(expenses, u),
                                       !.fields = filter_by(fields, u),
                                       !.suppliers = filter_by(suppliers, u)],
                           !.ai_response = Some(r.text)]
                   ELSE [NoResp EXCEPT !.route = "ai_chat", !.user = u, !.question = question,
                                       !.status = "form"]
        /\ chat_history' = IF asked THEN [chat_history EXCEPT ![u] = ChatAppend(@, question, r.text)]
                           ELSE chat_history
        /\ said' = IF asked THEN [said EXCEPT ![u] = ChatAdded(@, question, r.text)]
                   ELSE said
        /\ UNCHANGED <<bills, fertilizers, expenses, fields, suppliers>>
        /\ UNCHANGED accounts

\* POST /ai/chat/clear as user u.
clear_chat_history(u) ==
    /\ Allowed(u)
    /\ work + 1 <= MaxWork
    /\ work' = work + 1
    /\ calc' = NoCall
    /\ resp' = [NoResp EXCEPT !.route = "clear_chat_history", !.user = u, !.status = "ok"]
    /\ chat_history' = [chat_history EXCEPT ![u] = <<>>]
    /\ said' = [said EXCEPT ![u] = <<>>]
    /\ UNCHANGED <<bills, fertilizers, expenses, fields, suppliers>>
    /\ UNCHANGED accounts

Next ==
    \/ \E u \in Users, form \in BillForms, fault \in BillFaults : add_bill(u, form, fault)
    \/ \E u \in Users, form \in FertilizerForms, fault \in BillFaults :
          add_fertilizer(u, form, fault)
    \/ \E u \in Users, n \in 0..(MaxWork - work - 2), fault \in ImportFaults :
          \E rows \in [1..n -> ImportRowsOf(u)] : import_data(u, rows, fault)
    \/ \E u \in Users : \E order \in BillQueryOrders(bills, u) : export_data(u, order)
    \/ \E u \in Users, form \in ExpenseForms, fault \in RowFaults, wtforms \in WTForms :
          add_comprehensive_expense(u, form, fault, wtforms)
    \/ \E u \in Users, form \in FieldForms, fault \in RowFaults : add_field(u, form, fault)
    \/ \E u \in Users, form \in SupplierForms, fault \in RowFaults : add_supplier(u, form, fault)
    \/ \E u \in Users, reply \in AIReplies :
          \E eorder \in ExpenseQueryOrders(expenses, u), border \in BillQueryOrders(bills, u) :
              index(u, eorder, border, reply)
    \/ \E u \in Users : admin_dashboard(u)
    \/ \E u \in Users, question \in Questions, reply \in AIReplies :
          ai_chat_widget(u, question, reply)

Spec == Init /\ [][Next]_vars

\* ------------------------------------------------- the dashboard on its own
\* The dashboard is looked at on stores filled by a fixed log of requests,
\* cut off after any number of them.
MaxExpenses == 7

MaxLedgerRows == 5

MaxFields == 3

\* The n-th valid form posted to /expenses/add, and who posts it.
ExpenseLogForm(n) ==
    IF n % 3 = 1
    THEN [description |-> "Urea bags", category |-> "fertilizers", total_amount |-> Some(5000),
          expense_date |-> "2025-01-16",
      supplier_id |-> None, field_id |-> None]
    ELSE IF n % 3 = 2
    THEN [description |-> "Hybrid seed", category |-> "seeds", total_amount |-> Some(3000),
          expense_date |-> "2025-01-15",
      supplier_id |-> None, field_id |-> None]
    ELSE [description |-> "Hired hands", category |-> "labor", total_amount |-> Some(1250),
          expense_date |-> "2025-01-17",
      supplier_id |-> None, field_id |-> None]

ExpenseLogUser(n) == IF n % 4 = 0 THEN 2 ELSE 1

\* The Expense table after the first n requests of the log.
RECURSIVE ExpensesAfter(_)
ExpensesAfter(n) ==
    IF n = 0 THEN <<>>
    ELSE AddExpenseTry(ExpensesAfter(n - 1), ExpenseLogUser(n), ExpenseLogForm(n), NoFault).expenses

\* The n-th data row of the file user 1 uploads.
LedgerLogRow(n) ==
    IF n % 4 = 1
    THEN <<"2025-01-15", "BILL-001", "Urea A", "Urea", <<"1", "0", "0", ".", "0", "0">>>>
    ELSE IF n % 4 = 2
    THEN <<"2025-01-15", " BILL-001 ", "DAP B", "DAP", <<" ", "₹", "2", "0", "0", ".", "0", "0">>>>
    ELSE IF n % 4 = 3
    THEN <<"2025-01-15", "BILL-002", "Urea A", "Compost", <<"7", "5", ".", "5", "0">>>>
    ELSE <<"15/01/2025", "", "Urea A", "Urea">>

\* The Bill and Fertilizer tables after user 2 has (or has not) uploaded a
\* one-row file and user 1 then a file of the first n rows.
LedgerAfter(n, other) ==
    ImportRun(IF other
              THEN Begin(ImportRun(Begin(<<>>, <<>>), 2, <<SampleHeader, LedgerLogRow(1)>>,
                                   NoFault).st.bills,
                         ImportRun(Begin(<<>>, <<>>), 2, <<SampleHeader, LedgerLogRow(1)>>,
                                   NoFault).st.fertilizers)
              ELSE Begin(<<>>, <<>>),
              1, <<SampleHeader>> \o [i \in 1..n |-> LedgerLogRow(i)], NoFault).st

\* The n-th valid form posted to /fields/add, and who posts it.
FieldLogForm(n) ==
    IF n % 4 = 1 THEN [name |-> "Pond side", area_acres |-> None]
    ELSE IF n % 4 = 2 THEN [name |-> "Fallow", area_acres |-> Some(0)]
    ELSE IF n % 4 = 3 THEN [name |-> "North plot", area_acres |-> Some(2)]
    ELSE [name |-> "Far plot", area_acres |-> Some(3)]

FieldLogUser(n) == IF n % 4 = 0 THEN 2 ELSE 1

\* The Field table after the first n requests of the log.
RECURSIVE FieldsAfter(_)
FieldsAfter(n) ==
    IF n = 0 THEN <<>>
    ELSE AddFieldTry(FieldsAfter(n - 1), FieldLogUser(n), FieldLogForm(n), NoFault).fields

\* The stores the logs leave, with room for one more request.
InitDashboard ==
    \E n \in 0..MaxExpenses, m \in 0..MaxLedgerRows, k \in 0..MaxFields, other \in BOOLEAN :
        /\ bills = LedgerAfter(m, other).bills
        /\ fertilizers = LedgerAfter(m, other).fertilizers
        /\ expenses = ExpensesAfter(n)
        /\ fields = FieldsAfter(k)
        /\ suppliers = <<>>
        /\ resp = NoResp
        /\ calc = NoCall
        /\ work = MaxWork - 1
        /\ users = InitialUsers
        /\ sessions = Users
        /\ pending = <<>>
        /\ chat_history = [u \in Users |-> <<>>]
        /\ said = [u \in Users |-> <<>>]

NextDashboard ==
    \E u \in Users, reply \in AIReplies :
        \E eorder \in ExpenseQueryOrders(expenses, u), border \in BillQueryOrders(bills, u) :
            index(u, eorder, border, reply)

SpecDashboard == InitDashboard /\ [][NextDashboard]_vars

\* ---------------------------------------------------- the chat on its own
\* The chat is looked at on sessions filled by a fixed log of exchanges, cut
\* off after any number of them.
MaxChatLog == 10

\* The n-th question of the log and its answer.
ChatLogQuestion(n) == IF n % 2 = 1 THEN "How much urea per acre?" ELSE "Who won the match?"

ChatLogReply(n) == [installed |-> TRUE, kind |-> IF n % 3 = 0 THEN "empty" ELSE "text"]

\* session['chat_history'] after the first n exchanges of the log.
RECURSIVE ChatAfter(_)
ChatAfter(n) ==
    IF n = 0 THEN <<>>
    ELSE ChatAppend(ChatAfter(n - 1), ChatLogQuestion(n),
                    get_farming_advice(ChatLogQuestion(n), ChatLogReply(n)).text)

\* Every message of the first n exchanges of the log.
RECURSIVE SaidAfter(_)
SaidAfter(n) ==
    IF n = 0 THEN <<>>
    ELSE ChatAdded(SaidAfter(n - 1), ChatLogQuestion(n),
                          get_farming_advice(ChatLogQuestion(n), ChatLogReply(n)).text)

\* The sessions the log leaves, with room for two more exchanges.
InitChat ==
    \E n \in 0..MaxChatLog, other \in BOOLEAN :
        /\ bills = <<>>
        /\ fertilizers = <<>>
        /\ expenses = <<>>
        /\ fields = <<>>
        /\ suppliers = <<>>
        /\ resp = NoResp
        /\ calc = NoCall
        /\ work = MaxWork - 4
        /\ users = InitialUsers
        /\ sessions = Users
        /\ pending = <<>>
        /\ chat_history = [u \in Users |-> IF u = 1 THEN ChatAfter(n)
                                            ELSE IF other THEN ChatAfter(1) ELSE <<>>]
        /\ said = [u \in Users |-> IF u = 1 THEN SaidAfter(n)
                                    ELSE IF other THEN SaidAfter(1) ELSE <<>>]

NextChat ==
    \/ \E u \in Users, question \in Questions, reply \in AIReplies : ai_chat(u, question, reply)
    \/ \E u \in Users, question \in Questions, reply \in AIReplies :
          ai_chat_widget(u, question, reply)
    \/ \E u \in Users : clear_chat_history(u)

SpecChat == InitChat /\ [][NextChat]_vars

\* ------------------------------------------------- accounts and the admin
\* The routes behind login_required and active_user_required, and those
\* behind login_required and admin_required.
LedgerRoutes ==
    {"index", "add_bill", "add_fertilizer", "add_comprehensive_expense", "add_bulk_expenses",
     "ai_chat", "ai_chat_widget", "get_chat_history", "clear_chat_history", "manage_suppliers",
     "add_supplier", "manage_fields", "add_field", "export_data", "import_data"}

AdminRoutes == {"admin_dashboard", "toggle_user_status", "admin_user_details"}

\* The routes asked for without a session.
AnonymousRoutes == AdminRoutes \cup {"logout", "index", "add_bill", "import_data"}

\* The forms posted to /login; password_ok tells whether check_password
\* accepts the password for the user of the email.
LoginForms ==
    {[email |-> "asha@farm.in", password_ok |-> TRUE],
     [email |-> "Asha@Farm.in", password_ok |-> FALSE],
     [email |-> ADMIN_EMAIL, password_ok |-> TRUE],
     [email |-> "", password_ok |-> FALSE]}

\* User.query.filter_by(email=email).first(): the id of the user, or 0.
UserByEmail(us, email) ==
    IF \E i \in 1..Len(us) : us[i].email = email
    THEN CHOOSE i \in 1..Len(us) : us[i].email = email
    ELSE 0

\* POST /login: a user who is not active is not logged in.
login(form) ==
    \E id \in {UserByEmail(users, lower(strip(form.email)))} :
    \E known \in {form.email # "" /\ id # 0 /\ form.password_ok} :
        /\ sessions' = IF known /\ users[id].is_user_active THEN sessions \cup {id} ELSE sessions
        /\ calc' = NoCall
        /\ resp' = [NoResp EXCEPT
                      !.route = "login", !.email = form.email,
                      !.user = IF known THEN id ELSE 0,
                      !.status = IF form.email = "" THEN "invalid"
                                 ELSE IF ~known THEN "refused"
                                 ELSE IF ~users[id].is_user_active THEN "deactivated"
                                 ELSE "ok",
                      !.flashes = IF form.email = "" THEN <<>>
                                  ELSE IF ~known
                                  THEN <<flash("error", "Invalid email or password.", "")>>
                                  ELSE IF ~users[id].is_user_active
                                  THEN <<flash("error", "Your account has been deactivated.", "")>>
                                  ELSE <<flash("success", "Welcome back", "")>>]
        /\ UNCHANGED <<bills, fertilizers, expenses, fields, suppliers, work, users, pending,
                       chats>>

\* GET /logout as user u.
logout(u) ==
    /\ u \in sessions
    /\ sessions' = sessions \ {u}
    /\ calc' = NoCall
    /\ resp' = [NoResp EXCEPT !.route = "logout", !.user = u, !.status = "redirect",
                              !.flashes = <<flash("info", "Goodbye", "")>>]
    /\ UNCHANGED <<bills, fertilizers, expenses, fields, suppliers, work, users, pending, chats>>

\* A request without a session to a route behind login_required.
login_required(route) ==
    /\ calc' = NoCall
    /\ resp' = [NoResp EXCEPT !.route = route, !.status = "login",
                              !.flashes = <<flash("info", "Please log in to access this page.", "")>>]
    /\ UNCHANGED <<bills, fertilizers, expenses, fields, suppliers, work, accounts, chats>>

\* A request of user u, logged in and not active, to a route behind
\* active_user_required: logged out and sent to the login page.
active_user_required(u, route) ==
    /\ u \in sessions
    /\ ~users[u].is_user_active
    /\ sessions' = sessions \ {u}
    /\ calc' = NoCall
    /\ resp' = [NoResp EXCEPT !.route = route, !.user = u, !.status = "deactivated",
                              !.flashes = <<flash("error", "Your account has been deactivated.", "")>>]
    /\ UNCHANGED <<bills, fertilizers, expenses, fields, suppliers, work, users, pending, chats>>

\* What admin_required answers to a user who is not the admin.
AccessDenied(u, route, user_id) ==
    [NoResp EXCEPT !.route = route, !.user = u, !.target = user_id, !.status = "redirect",
                   !.flashes = <<flash("error", "Access denied. Admin privileges required.", "")>>]

\* toggle_user_status without the check of the admin's own id.
ToggleRefused_never(u, user_id) == FALSE

\* if current_user.id == user_id
ToggleRefused(u, user_id) == u = user_id

\* POST /admin/toggle_user/<user_id> as user u.
toggle_user_status(u, user_id, fault) ==
    \E found \in {user_id \in 1..Len(users)} :
    \E done \in {is_admin(users[u]) /\ ~ToggleRefused(u, user_id) /\ found
                  /\ fault.kind # "commit"} :
        /\ u \in sessions
        /\ users' = IF done
                    THEN [users EXCEPT ![user_id].is_user_active = ~users[user_id].is_user_active]
                    ELSE users
        /\ calc' = NoCall
        /\ resp' = IF ~is_admin(users[u]) THEN AccessDenied(u, "toggle_user_status", user_id)
                   ELSE [NoResp EXCEPT
                           !.route = "toggle_user_status", !.user = u, !.target = user_id,
                           !.read = [NoReads EXCEPT
                                       !.users = IF found /\ ~ToggleRefused(u, user_id)
                                                 THEN {user_id} ELSE {}],
                           !.fault = IF found /\ ~ToggleRefused(u, user_id)
                                     THEN fault.kind ELSE "none",
                           !.status = IF ToggleRefused(u, user_id) THEN "own"
                                      ELSE IF ~found THEN "404"
                                      ELSE IF done THEN "ok" ELSE "failed",
                           !.flashes =
                               IF ToggleRefused(u, user_id)
                               THEN <<flash("error", "You cannot deactivate your own account.", "")>>
                               ELSE IF ~found THEN <<>>
                               ELSE IF done
                               THEN <<flash("success", "User status changed",
                                            IF users[user_id].is_user_active
                                            THEN "deactivated" ELSE "activated")>>
                               ELSE <<flash("error", "Error updating user status: ",
                                            OperationalError)>>]
        /\ UNCHANGED <<bills, fertilizers, expenses, fields, suppliers, work, sessions, pending,
                       chats>>

\* GET /admin/user_details/<user_id> as user u.
admin_user_details(u, user_id) ==
    \E found \in {user_id \in 1..Len(users)} :
        /\ u \in sessions
        /\ calc' = NoCall
        /\ resp' = IF ~is_admin(users[u]) THEN AccessDenied(u, "admin_user_details", user_id)
                   ELSE [NoResp EXCEPT
                           !.route = "admin_user_details", !.user = u, !.target = user_id,
                           !.status = IF found THEN "ok" ELSE "404",
                           !.read = IF found
                                    THEN [NoReads EXCEPT !.users = {user_id},
                                                         !.bills = filter_by(bills, user_id)]
                                    ELSE NoReads]
        /\ UNCHANGED <<bills, fertilizers, expenses, fields, suppliers, work, accounts, chats>>

\* The admin and a farmer are logged in, with room for one request that
\* writes to the ledger.
InitUsers ==
    /\ bills = <<>>
    /\ fertilizers = <<>>
    /\ expenses = <<>>
    /\ fields = <<>>
    /\ suppliers = <<>>
    /\ resp = NoResp
    /\ calc = NoCall
    /\ work = MaxWork - 3
    /\ users = InitialUsers
    /\ sessions = Users
    /\ pending = <<>>
    /\ chat_history = [u \in Users |-> <<>>]
    /\ said = [u \in Users |-> <<>>]

NextUsers ==
    \/ \E form \in LoginForms : login(form)
    \/ \E u \in Users : logout(u)
    \/ \E route \in AnonymousRoutes : login_required(route)
    \/ \E u \in Users, route \in LedgerRoutes : active_user_required(u, route)
    \/ \E u \in Users, user_id \in 1..(Len(users) + 1), fault \in RowFaults :
          toggle_user_status(u, user_id, fault)
    \/ \E u \in Users, user_id \in 1..(Len(users) + 1) : admin_user_details(u, user_id)
    \/ Next

SpecUsers == InitUsers /\ [][NextUsers]_vars

\* ------------------------------------------------ the links of an Expense
\* The Expense forms are posted on stores filled by fixed logs of Suppliers
\* and Fields, cut off after any number of them.
MaxSuppliers == 2

SupplierLogUser(n) == IF n % 2 = 1 THEN 1 ELSE 2

\* The Supplier table after the first n requests of the log.
RECURSIVE SuppliersAfter(_)
SuppliersAfter(n) ==
    IF n = 0 THEN <<>>
    ELSE AddSupplierTry(SuppliersAfter(n - 1), SupplierLogUser(n), [name |-> "Agro Depot"],
                        NoFault).suppliers

\* The forms posted to /expenses/add with a Supplier or a Field selected.
LinkForms ==
    {[description |-> "Urea bags", category |-> "fertilizers", total_amount |-> Some(5000),
      expense_date |-> "2025-01-16", supplier_id |-> supplier_id, field_id |-> field_id] :
         supplier_id \in {None, Some(1), Some(2)}, field_id \in {None, Some(1)}}
    \cup {[description |-> "", category |-> "fertilizers", total_amount |-> Some(5000),
           expense_date |-> "2025-01-16", supplier_id |-> Some(1), field_id |-> None]}

\* The forms posted to /expenses/bulk.
BulkForms ==
    {[expense_date |-> "2025-01-15", field_id |-> Some(1), descriptions |-> <<"Urea bags">>],
     [expense_date |-> "2025-01-15", field_id |-> None, descriptions |-> <<"Urea bags", "">>],
     [expense_date |-> "", field_id |-> None, descriptions |-> <<>>]}

\* GET or POST /expenses/bulk as user u: populate_form_choices sets
\* form.category.choices, and BulkExpenseForm has no field category, so the
\* AttributeError leaves the view (status 500) before the form is read.
add_bulk_expenses(u, form) ==
    /\ Allowed(u)
    /\ work + 2 <= MaxWork
    /\ work' = work + 2
    /\ calc' = NoCall
    /\ resp' = [NoResp EXCEPT !.route = "add_bulk_expenses", !.user = u, !.status = "500"]
    /\ UNCHANGED <<bills, fertilizers, expenses, fields, suppliers>>
    /\ UNCHANGED <<accounts, chats>>

InitLinks ==
    \E k \in 0..MaxSuppliers, j \in 0..MaxFields :
        /\ bills = <<>>
        /\ fertilizers = <<>>
        /\ expenses = <<>>
        /\ fields = FieldsAfter(j)
        /\ suppliers = SuppliersAfter(k)
        /\ resp = NoResp
        /\ calc = NoCall
        /\ work = 0
        /\ users = InitialUsers
        /\ sessions = Users
        /\ pending = <<>>
        /\ chat_history = [u \in Users |-> <<>>]
        /\ said = [u \in Users |-> <<>>]

NextLinks ==
    \/ \E u \in Users, form \in LinkForms, fault \in RowFaults, wtforms \in WTForms :
          add_comprehensive_expense(u, form, fault, wtforms)
    \/ \E u \in Users, form \in BulkForms : add_bulk_expenses(u, form)

SpecLinks == InitLinks /\ [][NextLinks]_vars

\* ------------------------------------------------------------- registration
\* RegisterForm.validate_on_submit(): a name of two characters or more, an
\* email address, a password of six or more, typed twice.
RegisterFormValid(form) ==
    /\ form.name # "" /\ form.name # "A"
    /\ form.email \notin {"", "asha.farm.in"}
    /\ form.password \notin {"", "12345"}
    /\ form.confirm_password = form.password

\* User.query.filter_by(email=email).first(): whether the request sees a
\* committed user with the email.
existing_user(us, email) == \E i \in 1..Len(us) : us[i].email = email

\* A store that does not keep User.email unique.
UniqueEmailFails_never(us, email) == FALSE

\* unique=True of User.email: the INSERT of a second row with the email
\* fails.
UniqueEmailFails(us, email) == \E i \in 1..Len(us) : us[i].email = email

\* The forms posted to /register.
RegisterFormOf(name, email, password, confirm_password) ==
    [name |-> name, email |-> email, password |-> password,
     confirm_password |-> confirm_password]

RegisterForms ==
    {RegisterFormOf("Asha", "asha@farm.in", "secret1", "secret1"),
     RegisterFormOf("Asha", "Asha@Farm.in", "secret1", "secret1"),
     RegisterFormOf("Asha", " asha@farm.in ", "secret1", "secret1"),
     RegisterFormOf("Yash", "YashLawankar@Gmail.com", "secret2", "secret2"),
     RegisterFormOf("A", "asha.farm.in", "12345", "1234")}

\* The requests to /register that are served at the same time.
MaxRegistering == 2

\* POST /register up to the check for an existing user: an invalid form and
\* an email that is registered end the request, any other waits in pending
\* for its commit.
register(form) ==
    \E email \in {lower(strip(form.email))} :
        /\ work + 1 <= MaxWork
        /\ Len(pending) < MaxRegistering
        /\ work' = work + 1
        /\ calc' = NoCall
        /\ pending' = IF RegisterFormValid(form) /\ ~existing_user(users, email)
                      THEN Append(pending, email) ELSE pending
        /\ resp' = [NoResp EXCEPT
                      !.route = "register", !.email = form.email, !.first_user = Len(users),
                      !.status = IF ~RegisterFormValid(form) THEN "invalid"
                                 ELSE IF existing_user(users, email) THEN "exists"
                                 ELSE "checked",
                      !.flashes = IF RegisterFormValid(form) /\ existing_user(users, email)
                                  THEN <<flash("error", "Email address already registered.", "")>>
                                  ELSE <<>>]
        /\ UNCHANGED <<bills, fertilizers, expenses, fields, suppliers, users, sessions, chats>>

\* The rest of POST /register for the i-th waiting request: add and commit;
\* an exception of the commit is caught, rolled back and flashed.
register_commit(i, fault) ==
    \E email \in {pending[i]} :
    \E raised \in {IF fault.kind = "commit" THEN OperationalError
                    ELSE IF UniqueEmailFails(users, email) THEN IntegrityError ELSE ""} :
        /\ pending' = SubSeq(pending, 1, i - 1) \o SubSeq(pending, i + 1, Len(pending))
        /\ users' = IF raised = "" THEN Append(users, User(Len(users) + 1, email)) ELSE users
        /\ calc' = NoCall
        /\ resp' = [NoResp EXCEPT
                      !.route = "register", !.email = email, !.first_user = Len(users),
                      !.status = IF raised = "" THEN "ok" ELSE "failed",
                      !.fault = fault.kind,
                      !.flashes = IF raised = ""
                                  THEN <<flash("success", "Registration successful!", "")>>
                                  ELSE <<flash("error", "Registration failed.", "")>>]
        /\ UNCHANGED <<bills, fertilizers, expenses, fields, suppliers, work, sessions, chats>>

\* Nobody has registered.
InitRegister ==
    /\ bills = <<>>
    /\ fertilizers = <<>>
    /\ expenses = <<>>
    /\ fields = <<>>
    /\ suppliers = <<>>
    /\ resp = NoResp
    /\ calc = NoCall
    /\ work = 0
    /\ users = <<>>
    /\ sessions = {}
    /\ pending = <<>>
    /\ chat_history = [u \in Users |-> <<>>]
    /\ said = [u \in Users |-> <<>>]

NextRegister ==
    \/ \E form \in RegisterForms : register(form)
    \/ \E i \in 1..Len(pending), fault \in RowFaults : register_commit(i, fault)

SpecRegister == InitRegister /\ [][NextRegister]_vars

\* ================================================================== claims
\* An uploaded file as the claims describe it, apart from the row loop.

\* The sum of the prices of the rows of ferts at the places in S.
RECURSIVE PriceSum(_, _)
PriceSum(ferts, S) ==
    IF S = {} THEN 0
    ELSE LET i == CHOOSE x \in S : TRUE IN ferts[i].price + PriceSum(ferts, S \ {i})

\* The places in ferts of the items of the Bill with this id.
ItemsOf(ferts, bill_id) == {i \in 1..Len(ferts) : ferts[i].bill_id = bill_id}

ImportDone == resp.route = "import_data" /\ resp.status = "ok"

\* A data row the import accepts: not skipped for its length, not rejected
\* for its price.
Accepted(row) == Len(row) >= 4 /\ ImportPrice(row).ok

Rejected(row) == Len(row) >= 4 /\ ~ImportPrice(row).ok

Named(row) == strip(row[3]) # ""

\* The grouping key of an accepted row: (parsed purchase date, bill number).
RowKey(row) == <<ImportDate(strip(row[1])), strip(row[2])>>

\* The row numbers (the header is row 1) of the rows of file the import
\* accepts, in file order.
AcceptedRows(file) ==
    SelectSeq([i \in 1..(Len(file) - 1) |-> i + 1], LAMBDA n : Accepted(file[n]))

\* The row numbers of the rows of file the import rejects, in file order.
RejectedRows(file) ==
    SelectSeq([i \in 1..(Len(file) - 1) |-> i + 1], LAMBDA n : Rejected(file[n]))

\* The places in AcceptedRows at which a run starts.
RunStarts(file) ==
    LET V == AcceptedRows(file)
    IN  {k \in 1..Len(V) : k = 1 \/ RowKey(file[V[k]]) # RowKey(file[V[k - 1]])}

\* The run (counted from 1) that holds the k-th accepted row.
RunOf(file, k) == Cardinality({s \in RunStarts(file) : s <= k})

\* The places in AcceptedRows of the rows of run j.
RunRows(file, j) == {k \in 1..Len(AcceptedRows(file)) : RunOf(file, k) = j}

RECURSIVE RowPriceSum(_, _, _)
RowPriceSum(file, V, K) ==
    IF K = {} THEN 0
    ELSE LET k == CHOOSE x \in K : TRUE
         IN  ImportPrice(file[V[k]]).val + RowPriceSum(file, V, K \ {k})

\* C1: in every state of the store, each Bill's total_amount is the sum of
\* the prices of the Fertilizers whose bill_id is that Bill (0 when it has
\* none), the last Bill of an import included.
C1_TotalIsSumOfItems ==
    \A b \in 1..Len(bills) :
        bills[b].total_amount = PriceSum(fertilizers, ItemsOf(fertilizers, bills[b].id))

\* An import has committed two Bills or more, the last with a total that is not 0.
C1_Witness ==
    /\ ImportDone
    /\ resp.bills_created >= 2
    /\ bills[Len(bills)].total_amount > 0
    /\ Cardinality(ItemsOf(fertilizers, Len(bills))) >= 1

\* C2: a calculate_total call sets the Bill's total_amount to the sum of the
\* prices of its current items and returns that value, changing nothing else
\* of the Bill; the value is 0 when the Bill has no items or they cannot be
\* read; a second call with the items unchanged gives the same value.
C2_CalculateTotal ==
    calc.called =>
        LET mine == ItemsOf(calc.ferts, calc.before.id)
            again == calculate_total(calc.after, calc.ferts, calc.readable)
        IN  /\ calc.after = [calc.before EXCEPT !.total_amount = calc.ret]
            /\ calc.readable => calc.ret = PriceSum(calc.ferts, mine)
            /\ (~calc.readable \/ mine = {}) => calc.ret = 0
            /\ again.ret = calc.ret /\ again.self = calc.after

\* A call has totalled a Bill of two items or more to a value that is not 0.
C2_Witness ==
    /\ calc.called /\ calc.readable
    /\ Cardinality(ItemsOf(calc.ferts, calc.before.id)) >= 2
    /\ calc.ret > 0
    /\ calc.before.total_amount # calc.ret

\* The items of a committed import, row by row: the m-th accepted row with a
\* name is the m-th Fertilizer the import added, with the row's name and
\* price, in the Bill of the row's run.
ItemsFollowRuns ==
    LET file == resp.file
        V == AcceptedRows(file)
        NV == SelectSeq([k \in 1..Len(V) |-> k], LAMBDA k : Named(file[V[k]]))
    IN  /\ Len(fertilizers) = resp.first_fert + Len(NV)
        /\ \A m \in 1..Len(NV) :
               LET f == fertilizers[resp.first_fert + m]
                   row == file[V[NV[m]]]
               IN  /\ f.bill_id = resp.first_bill + RunOf(file, NV[m])
                   /\ f.name = strip(row[3])
                   /\ f.price = ImportPrice(row).val

\* One Bill for each run of a committed import, with the run's key and owner.
BillsFollowRuns ==
    LET file == resp.file
        V == AcceptedRows(file)
        n == Cardinality(RunStarts(file))
    IN  /\ resp.bills_created = n
        /\ Len(bills) = resp.first_bill + n
        /\ \A s \in RunStarts(file) :
               LET b == bills[resp.first_bill + RunOf(file, s)]
               IN  /\ b.id = resp.first_bill + RunOf(file, s)
                   /\ b.user_id = resp.user
                   /\ b.purchase_date = RowKey(file[V[s]])[1]
                   /\ b.bill_number = BillNumber(RowKey(file[V[s]])[2])

\* C3, as amended: in a committed import, every maximal run of consecutive
\* accepted rows (skipped and rejected rows left aside) that share a
\* grouping key gives exactly one Bill, which holds one item for each row
\* of the run that has a name and whose total is the sum of those rows'
\* prices.
C3_OneBillPerRun ==
    ImportDone =>
        /\ BillsFollowRuns
        /\ ItemsFollowRuns
        /\ \A j \in 1..Cardinality(RunStarts(resp.file)) :
               LET V == AcceptedRows(resp.file)
                   named == {k \in RunRows(resp.file, j) : Named(resp.file[V[k]])}
                   b == bills[resp.first_bill + j]
               IN  /\ Cardinality(ItemsOf(fertilizers, b.id)) = Cardinality(named)
                   /\ b.total_amount = RowPriceSum(resp.file, V, named)

\* C3, as claimed: the Bill of a run holds one item for each row of the run,
\* and its total is the sum of the prices of all the rows of the run.
C3_OneItemPerRow ==
    ImportDone =>
        /\ BillsFollowRuns
        /\ \A j \in 1..Cardinality(RunStarts(resp.file)) :
               LET V == AcceptedRows(resp.file)
                   b == bills[resp.first_bill + j]
               IN  /\ Cardinality(ItemsOf(fertilizers, b.id))
                          = Cardinality(RunRows(resp.file, j))
                   /\ b.total_amount = RowPriceSum(resp.file, V, RunRows(resp.file, j))

\* The two rows of the example (the same date and BILL-001, 100 and 200) have
\* been imported after a Bill of another key: one Bill, two items, total 300.
C3_Witness ==
    /\ ImportDone
    /\ Len(AcceptedRows(resp.file)) = 3
    /\ resp.bills_created = 2
    /\ Cardinality(ItemsOf(fertilizers, Len(bills))) = 2
    /\ bills[Len(bills)].total_amount = 30000
    /\ bills[Len(bills)].bill_number = Some("BILL-001")

\* C4: grouping is by adjacency. In a committed import whose accepted rows
\* are three named rows with keys k, k', k (k' another key), three Bills are
\* created and the first and the third each hold only their own row's item;
\* and in any committed import, two named rows with the same key that have a
\* row of another key between them are in different Bills.
C4_GroupingByAdjacency ==
    ImportDone =>
        LET file == resp.file
            V == AcceptedRows(file)
            NV == SelectSeq([k \in 1..Len(V) |-> k], LAMBDA k : Named(file[V[k]]))
            key(k) == RowKey(file[V[k]])
        IN  /\ (Len(V) = 3 /\ Len(NV) = 3 /\ key(1) = key(3) /\ key(1) # key(2)) =>
                   /\ resp.bills_created = 3
                   /\ Len(bills) = resp.first_bill + 3
                   /\ \A j \in 1..3 :
                          ItemsOf(fertilizers, resp.first_bill + j) = {resp.first_fert + j}
            /\ Len(fertilizers) = resp.first_fert + Len(NV)
            /\ \A a, c \in 1..Len(NV) :
                   (/\ a < c
                    /\ key(NV[a]) = key(NV[c])
                    /\ \E k \in (NV[a] + 1)..(NV[c] - 1) : key(k) # key(NV[a]))
                   => fertilizers[resp.first_fert + a].bill_id
                          # fertilizers[resp.first_fert + c].bill_id

\* An import of three named rows with keys k, k', k has committed.
C4_Witness ==
    /\ ImportDone
    /\ Len(resp.file) = 4
    /\ \A n \in 2..4 : Accepted(resp.file[n]) /\ Named(resp.file[n])
    /\ RowKey(resp.file[2]) = RowKey(resp.file[4])
    /\ RowKey(resp.file[2]) # RowKey(resp.file[3])
    /\ resp.bills_created = 3
    /\ bills[Len(bills)].bill_number = bills[Len(bills) - 2].bill_number
    /\ bills[Len(bills)].purchase_date = bills[Len(bills) - 2].purchase_date

\* What importing csv into an empty store as user u leaves there.
Reimported(u, csv) == ImportRun([bills |-> <<>>, fertilizers |-> <<>>], u, csv, NoFault).st

\* C5, as claimed: for every user and every order export_data can write that
\* user's Bills in, importing the exported file into an empty store gives as
\* many Bills as the user has, with, Bill by Bill in the file's order, the
\* same number of items and the same total.
C5_RoundTrip ==
    \A u \in Users :
        \A order \in BillQueryOrders(bills, u) :
            LET back == Reimported(u, <<ExportHeader>> \o ExportRows(order, bills, fertilizers))
            IN  /\ Len(back.bills) = Len(order)
                /\ \A j \in 1..Len(order) :
                       /\ Cardinality(ItemsOf(back.fertilizers, j))
                              = Cardinality(ItemsOf(fertilizers, order[j]))
                       /\ back.bills[j].total_amount = bills[order[j]].total_amount

\* C6: a request that fails (the exception is caught and rolled back, or
\* leaves the view) changes neither table; an add_bill or add_fertilizer
\* that succeeds adds exactly its one Bill with all the items it counted.
C6_AllOrNothing ==
    [][/\ resp'.status \in {"failed", "500"} =>
              bills' = bills /\ fertilizers' = fertilizers
       /\ (resp'.status = "ok" /\ resp'.route \in {"add_bill", "add_fertilizer"}) =>
              /\ Len(bills') = Len(bills) + 1
              /\ SubSeq(bills', 1, Len(bills)) = bills
              /\ Len(fertilizers') = Len(fertilizers) + resp'.imported_count
              /\ SubSeq(fertilizers', 1, Len(fertilizers)) = fertilizers
              /\ \A i \in (Len(fertilizers) + 1)..Len(fertilizers') :
                     fertilizers'[i].bill_id = Len(bills')]_vars

\* An add_bill has failed on the price of a later entry, after it had
\* flushed its Bill and added an item; the store holds neither.
C6_Witness ==
    /\ resp.route = "add_bill"
    /\ resp.status = "failed"
    /\ resp.fault = "none"
    /\ resp.imported_count >= 1
    /\ Len(bills) = resp.first_bill
    /\ Len(fertilizers) = resp.first_fert

\* C7, as claimed: the message flashed when the store fails a write request
\* carries no text of the exception.
C7_GenericFailureMessage ==
    (resp.status = "failed" /\ resp.fault \in {"flush", "load", "commit"}) =>
        /\ resp.flashes # <<>>
        /\ \A i \in 1..Len(resp.flashes) : resp.flashes[i].detail = ""

\* The row numbers of the rows of an uploaded file that are short.
ShortRows(file) == {n \in 2..Len(file) : Len(file[n]) < 4}

\* C8: in a committed import no entry of the error list names a row with
\* fewer than 4 fields, and the Bills and items created are those of the
\* accepted rows alone: a short row creates nothing, and the accepted rows
\* after it are imported.
C8_ShortRowsSkipped ==
    ImportDone =>
        /\ \A i \in 1..Len(resp.errors) : resp.errors[i].row \notin ShortRows(resp.file)
        /\ Len(resp.errors) + Len(AcceptedRows(resp.file)) + Cardinality(ShortRows(resp.file))
               = Len(resp.file) - 1
        /\ resp.bills_created = Cardinality(RunStarts(resp.file))
        /\ Len(bills) - resp.first_bill = resp.bills_created
        /\ resp.imported_count
               = Len(SelectSeq(AcceptedRows(resp.file), LAMBDA n : Named(resp.file[n])))
        /\ Len(fertilizers) - resp.first_fert = resp.imported_count

\* An import whose first data row is short and is followed by an accepted,
\* named row has committed that row's item, with no error listed.
C8_Witness ==
    /\ ImportDone
    /\ Len(resp.file) >= 3
    /\ 2 \in ShortRows(resp.file)
    /\ Accepted(resp.file[3]) /\ Named(resp.file[3])
    /\ resp.errors = <<>>
    /\ resp.imported_count >= 1
    /\ Len(fertilizers) > resp.first_fert

\* C9: in an import that reaches its commit, the error list holds exactly
\* one entry for each row whose price cannot be parsed, in file order and
\* labelled with the row's number in the file (the header is row 1); when
\* the import commits, the Bills and items created are those of the accepted
\* rows alone, the ones after a rejected row included.
C9_BadPriceRows ==
    (resp.route = "import_data" /\ resp.status \in {"ok", "failed"}) =>
        LET bad == RejectedRows(resp.file)
        IN  /\ Len(resp.errors) = Len(bad)
            /\ \A i \in 1..Len(bad) : resp.errors[i].row = bad[i]
            /\ ImportDone =>
                   /\ Len(bills) - resp.first_bill = Cardinality(RunStarts(resp.file))
                   /\ Len(fertilizers) - resp.first_fert
                          = Len(SelectSeq(AcceptedRows(resp.file),
                                          LAMBDA n : Named(resp.file[n])))

\* An import whose first data row has an unparsable price and whose next row
\* is accepted and named has committed: one error, for row 2, and the item.
C9_Witness ==
    /\ ImportDone
    /\ Len(resp.file) >= 3
    /\ Rejected(resp.file[2])
    /\ Accepted(resp.file[3]) /\ Named(resp.file[3])
    /\ Len(resp.errors) = 1
    /\ resp.errors[1].row = 2
    /\ Len(fertilizers) = resp.first_fert + 1
    /\ Len(bills) = resp.first_bill + 1

\* C10, as claimed: every stored Fertilizer has a price that is at least 0.
C10_NonNegativePrices == \A i \in 1..Len(fertilizers) : fertilizers[i].price >= 0

\* Every row a request has read, by the ids its queries returned, is owned
\* by the user the request was made as.
ReadsOwnRows ==
    /\ \A i \in resp.read.bills : bills[i].user_id = resp.user
    /\ \A i \in resp.read.expenses : expenses[i].user_id = resp.user
    /\ \A i \in resp.read.fields : fields[i].user_id = resp.user
    /\ \A i \in resp.read.suppliers : suppliers[i].user_id = resp.user

\* C11, as amended: outside the admin's routes, every query against Bill,
\* Expense, Supplier or Field is filtered by the acting user's id, so the
\* request reads rows of that user only; admin_dashboard, served to the admin
\* alone, reads the Bills of every user.
C11_QueriesScopedOutsideAdmin ==
    /\ resp.route # "admin_dashboard" => ReadsOwnRows
    /\ (resp.route = "admin_dashboard" /\ resp.read.bills # {}) => is_admin(users[resp.user])

\* C11, as claimed: in every route the rows read are the acting user's own.
C11_EveryQueryScoped == ReadsOwnRows

\* The dashboard was served to a user who has a Bill while another user has
\* one too, and it read the first user's Bill alone.
C11_Witness ==
    /\ resp.route = "index"
    /\ resp.read.bills # {}
    /\ \E i \in 1..Len(bills) : bills[i].user_id # resp.user
    /\ resp.dashboard.total_bills = Cardinality(resp.read.bills)
    /\ resp.dashboard.total_bills < Len(bills)

\* The rows of one user, renumbered from 1.
OwnRows(rows, user_id) ==
    [i \in 1..Cardinality(filter_by(rows, user_id)) |->
        [rows[InIdOrder(filter_by(rows, user_id))[i]] EXCEPT !.id = i]]

\* The place of Bill bill_id among the Bills of its owner.
OwnBillId(bs, bill_id) ==
    Cardinality({j \in 1..bill_id : bs[j].user_id = bs[bill_id].user_id})

\* The Fertilizers of one user's Bills, renumbered like the Bills.
OwnFertilizers(bs, ferts, user_id) ==
    [i \in 1..Len(SelectSeq(ferts, LAMBDA f : bs[f.bill_id].user_id = user_id)) |->
        [SelectSeq(ferts, LAMBDA f : bs[f.bill_id].user_id = user_id)[i]
            EXCEPT !.id = i, !.bill_id = OwnBillId(bs, @)]]

\* The store the requests of user_id leave when nobody else makes a request:
\* every id is the count of the rows added before, so it is the user's own
\* rows, numbered from 1.
Alone(user_id) ==
    LedgerOf(OwnRows(bills, user_id), OwnFertilizers(bills, fertilizers, user_id),
             OwnRows(expenses, user_id), OwnRows(fields, user_id), OwnRows(suppliers, user_id))

\* The files export_data can write for user_id on the store db.
Exports(db, user_id) ==
    {<<ExportHeader>> \o ExportRows(order, db.bills, db.fertilizers) :
        order \in BillQueryOrders(db.bills, user_id)}

\* The dashboards index can show user_id on the store db.
Dashboards(db, user_id) ==
    {Dashboard(db, user_id, eorder, border, reply) :
        eorder \in ExpenseQueryOrders(db.expenses, user_id),
        border \in BillQueryOrders(db.bills, user_id),
        reply \in AIReplies}

\* C12, as claimed: the dashboard and the CSV export of a user are the same
\* whether or not the other users have made their requests.
C12_NonInterference ==
    \A u \in Users :
        /\ Dashboards(Ledger, u) = Dashboards(Alone(u), u)
        /\ Exports(Ledger, u) = Exports(Alone(u), u)

\* The part of C12 that does hold: the dashboard of a user does not depend on
\* the other users' requests.
C12_DashboardsIndependent == \A u \in Users : Dashboards(Ledger, u) = Dashboards(Alone(u), u)

\* The sum of total_amount over the rows of a table at the ids of S.
RECURSIVE AmountSum(_, _)
AmountSum(rows, S) ==
    IF S = {} THEN 0
    ELSE AmountSum(rows, S \ {CHOOSE x \in S : TRUE}) + rows[CHOOSE x \in S : TRUE].total_amount

\* The ids of the acting user's rows in a table.
Mine(rows) == {i \in 1..Len(rows) : rows[i].user_id = resp.user}

\* The sum of the values of a category_breakdown.
RECURSIVE BreakdownSum(_)
BreakdownSum(cb) == IF cb = <<>> THEN 0 ELSE Head(cb).amount + BreakdownSum(Tail(cb))

\* What the acting user's Expenses and Bills put under one key.
UnderKey(key) ==
    AmountSum(expenses, {i \in Mine(expenses) : expenses[i].category = key})
    + (IF key = "fertilizers" THEN AmountSum(bills, Mine(bills)) ELSE 0)

MyAcres ==
    LET S == {i \in Mine(fields) : fields[i].is_active /\ fields[i].area_acres # None}
        Acres[T \in SUBSET S] ==
            IF T = {} THEN 0
            ELSE Acres[T \ {CHOOSE x \in T : TRUE}] + fields[CHOOSE x \in T : TRUE].area_acres[1]
    IN  Acres[S]

\* C14: the dashboard is served without a division by zero; cost_per_acre is
\* 0 when the areas of the user's active fields add up to 0, and otherwise
\* it is total_expenses divided by that sum.
C14_CostPerAcre ==
    resp.route = "index" =>
        /\ resp.status = "ok"
        /\ ~resp.dashboard.cost_per_acre.raised
        /\ resp.dashboard.total_acres = MyAcres
        /\ MyAcres = 0 => resp.dashboard.cost_per_acre.value = <<0, 1>>
        /\ MyAcres # 0 =>
               /\ resp.dashboard.cost_per_acre.value[2] > 0
               /\ resp.dashboard.cost_per_acre.value[1] * MyAcres
                      = resp.dashboard.total_expenses * resp.dashboard.cost_per_acre.value[2]

\* The dashboard of a user who has spent something and whose fields, one
\* without an area and one of 0 acres, add up to 0 acres.
C14_Witness ==
    /\ resp.route = "index" /\ resp.status = "ok"
    /\ resp.dashboard.total_expenses > 0
    /\ \E i \in Mine(fields) : fields[i].area_acres = None
    /\ \E i \in Mine(fields) : fields[i].area_acres = Some(0)
    /\ MyAcres = 0
    /\ resp.dashboard.cost_per_acre.value = <<0, 1>>

\* C15: recent_activities has at most 8 entries, and no entry comes before
\* one of a later date.
C15_RecentActivities ==
    resp.route = "index" =>
        /\ Len(resp.dashboard.recent_activities) <= 8
        /\ \A i, j \in DOMAIN resp.dashboard.recent_activities :
               i < j => resp.dashboard.recent_activities[i].date
                            >= resp.dashboard.recent_activities[j].date

\* The dashboard of a user with more than 5 Expenses and 3 Bills holding 4
\* items, one Bill dated after an Expense and one before an Expense: 8
\* entries are shown, of both kinds.
C15_Witness ==
    /\ resp.route = "index"
    /\ Cardinality(Mine(expenses)) > 5
    /\ Cardinality(Mine(bills)) = 3
    /\ Cardinality({i \in 1..Len(fertilizers) : fertilizers[i].bill_id \in Mine(bills)}) = 4
    /\ \E b \in Mine(bills), e \in Mine(expenses) :
           expenses[e].expense_date < bills[b].purchase_date
    /\ \E b \in Mine(bills), e \in Mine(expenses) :
           bills[b].purchase_date < expenses[e].expense_date
    /\ Len(resp.dashboard.recent_activities) = 8
    /\ \E i \in 1..8 : resp.dashboard.recent_activities[i].type = "expense"
    /\ \E i \in 1..8 : resp.dashboard.recent_activities[i].type = "fertilizer"

\* The number of rows the Bills before place k of order put into the file.
RECURSIVE RowsBefore(_, _)
RowsBefore(order, k) ==
    IF k = 1 THEN 0
    ELSE RowsBefore(order, k - 1) + Cardinality(ItemsOf(fertilizers, order[k - 1]))

\* The i-th item of a Bill, in id order.
ItemAt(bill_id, i) == fertilizers[InIdOrder(ItemsOf(fertilizers, bill_id))[i]]

\* The file shows the Bills in this order, each by one row for each of its
\* items, the rows of a Bill next to each other.
ExportedInOrder(csv, order) ==
    /\ Len(csv) = 1 + RowsBefore(order, Len(order) + 1)
    /\ \A k \in DOMAIN order :
       \A i \in 1..Cardinality(ItemsOf(fertilizers, order[k])) :
           /\ Len(csv[1 + RowsBefore(order, k) + i]) = 7
           /\ csv[1 + RowsBefore(order, k) + i][1] = strftime(bills[order[k]].purchase_date)
           /\ csv[1 + RowsBefore(order, k) + i][2]
                  = (IF bills[order[k]].bill_number = None
                     THEN "BILL-" \o ToString(bills[order[k]].id)
                     ELSE bills[order[k]].bill_number[1])
           /\ csv[1 + RowsBefore(order, k) + i][3] = ItemAt(order[k], i).name
           /\ csv[1 + RowsBefore(order, k) + i][4] = ItemAt(order[k], i).category
           /\ csv[1 + RowsBefore(order, k) + i][5] = format2f(ItemAt(order[k], i).price)
           /\ csv[1 + RowsBefore(order, k) + i][6] = format2f(bills[order[k]].total_amount)
           /\ csv[1 + RowsBefore(order, k) + i][7]
                  = Digits(Cardinality(ItemsOf(fertilizers, order[k])))

\* C16: the file export_data writes begins with the fixed header row; after
\* it come the acting user's Bills in an order of non-increasing purchase
\* date, each as one row per item, the rows of a Bill contiguous; every row
\* of a Bill carries the Bill's stored total, the number of the Bill's items
\* (which is the number of its rows) and the stored bill number, or
\* 'BILL-<id>' when there is none.
C16_ExportRows ==
    resp.route = "export_data" =>
        /\ resp.csv[1] = ExportHeader
        /\ \E order \in BillQueryOrders(bills, resp.user) : ExportedInOrder(resp.csv, order)

\* An export of two Bills of different dates, each with one item: the later
\* one, which has no bill number, comes first.
C16_Witness ==
    /\ resp.route = "export_data"
    /\ Len(resp.csv) = 3
    /\ resp.csv[2][1] = "2025-01-17" /\ resp.csv[3][1] = "2025-01-15"
    /\ resp.csv[2][2] = "BILL-2" /\ resp.csv[3][2] = "BILL-001"
    /\ resp.csv[2][7] = <<"1">> /\ resp.csv[3][7] = <<"1">>

\* The row numbers of the rows that add an item: accepted and named. In a
\* committed import the j-th of them made the j-th new Fertilizer.
NamedRows(file) == SelectSeq(AcceptedRows(file), LAMBDA n : Named(file[n]))

NewItem(j) == fertilizers[resp.first_fert + j]

\* The row numbers the error list names.
ErrorRows == {resp.errors[i].row : i \in DOMAIN resp.errors}

\* C17: in a committed import every new Fertilizer has a category of
\* FERTILIZER_CATEGORIES: the row's category if that is one of them, 'Urea'
\* if it is not; and no error names the row.
C17_ImportCategories ==
    ImportDone =>
        /\ Len(fertilizers) - resp.first_fert = Len(NamedRows(resp.file))
        /\ \A j \in DOMAIN NamedRows(resp.file) :
               /\ NewItem(j).category \in FERTILIZER_CATEGORIES
               /\ NewItem(j).category
                      = (IF strip(resp.file[NamedRows(resp.file)[j]][4]) \in FERTILIZER_CATEGORIES
                         THEN strip(resp.file[NamedRows(resp.file)[j]][4]) ELSE "Urea")
               /\ NamedRows(resp.file)[j] \notin ErrorRows

\* A committed import of a row whose category is 'Compost': the item is
\* there, under 'Urea', and the error list is empty.
C17_Witness ==
    /\ ImportDone
    /\ resp.errors = <<>>
    /\ \E j \in DOMAIN NamedRows(resp.file) :
           /\ resp.file[NamedRows(resp.file)[j]][4] = "Compost"
           /\ NewItem(j).category = "Urea"

\* Whether the date field of a row is a date.
Dated(row) == strptime(strip(row[1])).ok

\* The purchase date a row is imported under.
RowDate(row) == IF Dated(row) THEN strptime(strip(row[1])).date ELSE Today

\* Two item rows with no accepted row between them.
NextTo(file, j) ==
    \A n \in (NamedRows(file)[j] + 1)..(NamedRows(file)[j + 1] - 1) : ~Accepted(file[n])

\* C18: in a committed import a row whose date field is no YYYY-MM-DD date
\* is imported: its item is in a Bill dated today, no error names the row,
\* and it shares a Bill with the accepted row next to it exactly when that
\* row has the same bill number and, with today standing for a date that
\* does not parse, the same date.
C18_DateFallsBackToToday ==
    ImportDone =>
        /\ Len(fertilizers) - resp.first_fert = Len(NamedRows(resp.file))
        /\ \A j \in DOMAIN NamedRows(resp.file) :
               ~Dated(resp.file[NamedRows(resp.file)[j]]) =>
                   /\ bills[NewItem(j).bill_id].purchase_date = Today
                   /\ NamedRows(resp.file)[j] \notin ErrorRows
        /\ \A j \in 1..(Len(NamedRows(resp.file)) - 1) :
               (/\ NextTo(resp.file, j)
                /\ \/ ~Dated(resp.file[NamedRows(resp.file)[j]])
                   \/ ~Dated(resp.file[NamedRows(resp.file)[j + 1]])) =>
                   (NewItem(j).bill_id = NewItem(j + 1).bill_id
                        <=> /\ RowDate(resp.file[NamedRows(resp.file)[j]])
                                   = RowDate(resp.file[NamedRows(resp.file)[j + 1]])
                            /\ strip(resp.file[NamedRows(resp.file)[j]][2])
                                   = strip(resp.file[NamedRows(resp.file)[j + 1]][2]))

\* A committed import of two rows dated '15/01/2025': one Bill, dated today,
\* with both items, and no error.
C18_Witness ==
    /\ ImportDone
    /\ Len(resp.file) = 3
    /\ resp.file[2][1] = "15/01/2025" /\ resp.file[3][1] = "15/01/2025"
    /\ resp.errors = <<>>
    /\ Len(bills) = resp.first_bill + 1
    /\ bills[Len(bills)].purchase_date = Today
    /\ Len(fertilizers) = resp.first_fert + 2

\* A row whose price field is there and blank.
BlankPrice(row) == Len(row) > 4 /\ StripChars(row[5]) = <<>>

C20_AssistantFailureDegrades ==
    /\ resp.route = "index" =>
           /\ resp.status = "ok"
           /\ resp.dashboard.total_expenses
                  = AmountSum(expenses, Mine(expenses)) + AmountSum(bills, Mine(bills))
           /\ resp.dashboard.ai_called =>
                  /\ resp.dashboard.ai_insights # None
                  /\ resp.reply = "raise" => resp.dashboard.ai_insights = Some(AnalysisTrouble)
                  /\ resp.reply = "empty" =>
                         resp.dashboard.ai_insights \in {Some(AnalysisTrouble), Some(AnalysisUnable)}
    /\ resp.route = "ai_chat_widget" =>
           /\ resp.status \in {"ok", "400", "503"}
           /\ resp.status = "ok" =>
                  /\ resp.ai_response # None
                  /\ resp.reply = "raise" => resp.ai_response = Some(AdviceTrouble)
                  /\ resp.reply = "empty" => resp.ai_response = Some(AdviceUnable)

\* The dashboard of a user with a Bill and no Expense, served while the
\* collaborator raised: the total is there, and the insight is the fixed text.
C20_Witness ==
    /\ resp.route = "index" /\ resp.status = "ok"
    /\ resp.reply = "raise"
    /\ Mine(expenses) = {}
    /\ resp.dashboard.total_expenses > 0
    /\ resp.dashboard.ai_insights = Some(AnalysisTrouble)

\* The chat routes.
ChatRoutes == {"ai_chat", "ai_chat_widget"}

\* C21: a question that fails the farming-topic check is answered with the
\* fixed message about the assistant's scope and the model is not called for
\* it; the model is called only for a question that passes the check.
C21_OffTopicNeverReachesModel ==
    (resp.route \in ChatRoutes /\ resp.status = "ok") =>
        /\ ~is_farming_related(strip(resp.question)) =>
               resp.ai_response = Some(AdviceOffTopic) /\ resp.reply = "none"
        /\ resp.reply # "none" => is_farming_related(strip(resp.question))

C21_Witness ==
    /\ resp.route \in ChatRoutes /\ resp.status = "ok"
    /\ resp.question = "Who won the match?"
    /\ resp.ai_response = Some(AdviceOffTopic)
    /\ chat_history[resp.user] # <<>>
    /\ chat_history[resp.user][Len(chat_history[resp.user])] = Message("ai", AdviceOffTopic)

\* C22: the chat history of a session holds at most 20 messages, the latest
\* of those added since it was last cleared, in the order they were added,
\* and it is empty right after clear_chat_history.
C22_HistoryKeepsLatestTwenty ==
    \A u \in Users :
        /\ Len(chat_history[u]) <= 20
        /\ Len(chat_history[u]) = IF Len(said[u]) <= 20 THEN Len(said[u]) ELSE 20
        /\ \A i \in 1..Len(chat_history[u]) :
               chat_history[u][i] = said[u][Len(said[u]) - Len(chat_history[u]) + i]
        /\ (resp.route = "clear_chat_history" /\ resp.user = u) => chat_history[u] = <<>>

C22_Witness ==
    /\ resp.route \in ChatRoutes /\ resp.status = "ok"
    /\ Len(said[resp.user]) > 20
    /\ Len(chat_history[resp.user]) = 20
    /\ chat_history[resp.user][20] = Message("ai", resp.ai_response[1])

\* C23: no two User records have the same email, every email is stored
\* stripped and lower-cased, and a registration that finds its email
\* registered, at its check or at its commit, creates no user; of two
\* registrations of one email served at the same time at most one does.
C23_EmailsUnique ==
    /\ \A i, j \in 1..Len(users) : users[i].email = users[j].email => i = j
    /\ \A i \in 1..Len(users) : users[i].id = i /\ lower(strip(users[i].email)) = users[i].email
    /\ (resp.route = "register" /\ resp.status \in {"invalid", "exists", "failed"}) =>
           Len(users) = resp.first_user
    /\ (resp.route = "register" /\ resp.status = "ok") =>
           /\ Len(users) = resp.first_user + 1
           /\ \A i \in 1..resp.first_user : users[i].email # users[Len(users)].email

\* Two registrations of one email were under way together; one made the
\* user and the other failed at its commit.
C23_Witness ==
    /\ resp.route = "register" /\ resp.status = "failed" /\ resp.fault = "none"
    /\ \E i \in 1..Len(users) : users[i].email = resp.email
    /\ Len(users) = 2

\* The five tables of the ledger.
LedgerTables == <<bills, fertilizers, expenses, fields, suppliers>>

\* C24: a request to an admin route by anyone but the admin is turned away
\* before the route runs: it reads no user and no Bill, and it changes no
\* user's active flag and no row of the ledger.
C24_NonAdminTurnedAway ==
    [][(resp'.route \in AdminRoutes
        /\ (resp'.user = 0 \/ users[resp'.user].email # ADMIN_EMAIL)) =>
           /\ resp'.status \in {"redirect", "login"}
           /\ resp'.read = NoReads
           /\ resp'.admin = NoResp.admin
           /\ users' = users
           /\ LedgerTables' = LedgerTables]_vars

\* The farmer asked to deactivate the admin while Bills were stored.
C24_Witness ==
    /\ resp.route = "toggle_user_status" /\ resp.status = "redirect"
    /\ users[resp.user].email # ADMIN_EMAIL
    /\ resp.target \in 1..Len(users)
    /\ users[resp.target].email = ADMIN_EMAIL /\ users[resp.target].is_user_active
    /\ bills # <<>>

\* C29: a request made as a user whose active flag is false changes no
\* table of the ledger: login does not open a session, and a request on an
\* open session to a ledger route closes the session and is sent to the
\* login page; whoever changes the ledger is logged in and active.
C29_InactiveUserChangesNothing ==
    [][/\ (resp'.user \in Users /\ ~users[resp'.user].is_user_active
           /\ resp'.route \in LedgerRoutes \cup {"login"}) =>
              /\ LedgerTables' = LedgerTables
              /\ chats' = chats
              /\ resp'.status = "deactivated"
              /\ IF resp'.route = "login" THEN sessions' = sessions
                 ELSE sessions' = sessions \ {resp'.user}
       /\ LedgerTables' # LedgerTables =>
              /\ resp'.user \in sessions
              /\ users[resp'.user].is_user_active]_vars

\* A deactivated farmer with an open session asked for a ledger route after
\* a Bill had been stored.
C29_Witness ==
    /\ resp.route \in {"add_bill", "import_data"} /\ resp.status = "deactivated"
    /\ ~users[resp.user].is_user_active
    /\ resp.user \notin sessions
    /\ bills # <<>>

\* C30: the user table changes only by a toggle_user_status of the admin
\* on another user, which flips that user's active flag and nothing else;
\* the admin's own flag stays true.
C30_AdminStaysActive ==
    [][/\ \A i \in 1..Len(users') : users'[i].email = ADMIN_EMAIL => users'[i].is_user_active
       /\ users' # users =>
              /\ resp'.route = "toggle_user_status" /\ resp'.status = "ok"
              /\ users[resp'.user].email = ADMIN_EMAIL
              /\ resp'.target # resp'.user
              /\ resp'.target \in 1..Len(users)
              /\ users' = [users EXCEPT ![resp'.target].is_user_active =
                                            ~users[resp'.target].is_user_active]
       /\ (resp'.route = "toggle_user_status" /\ resp'.status \in {"own", "404", "failed"}) =>
              users' = users]_vars

\* The admin has deactivated the farmer and then asked for the own account.
C30_Witness ==
    /\ resp.route = "toggle_user_status" /\ resp.status = "own"
    /\ users[resp.user].email = ADMIN_EMAIL /\ users[resp.user].is_user_active
    /\ \E i \in 1..Len(users) : ~users[i].is_user_active

\* The sets of n of the acting user's Expenses (all of them when there are
\* fewer) that leave out no Expense dated after one they hold.
MostRecentExpenses(n) ==
    {T \in SUBSET Mine(expenses) :
        /\ Cardinality(T) = (IF Cardinality(Mine(expenses)) < n
                             THEN Cardinality(Mine(expenses)) ELSE n)
        /\ \A x \in T, y \in Mine(expenses) \ T :
               expenses[x].expense_date >= expenses[y].expense_date}

\* The same for the acting user's Bills.
MostRecentBills(n) ==
    {T \in SUBSET Mine(bills) :
        /\ Cardinality(T) = (IF Cardinality(Mine(bills)) < n THEN Cardinality(Mine(bills)) ELSE n)
        /\ \A x \in T, y \in Mine(bills) \ T :
               bills[x].purchase_date >= bills[y].purchase_date}

\* How many entries equal to v the Expenses of E and the items of the Bills
\* of B give.
PoolCount(E, B, v) ==
    Cardinality({e \in E :
        v = [type |-> "expense", description |-> expenses[e].description,
             category |-> expenses[e].category, amount |-> expenses[e].total_amount,
             date |-> expenses[e].expense_date]})
    + Cardinality({f \in 1..Len(fertilizers) :
        /\ fertilizers[f].bill_id \in B
        /\ v = [type |-> "fertilizer", description |-> fertilizers[f].name,
                category |-> fertilizers[f].category, amount |-> fertilizers[f].price,
                date |-> bills[fertilizers[f].bill_id].purchase_date]})

\* The entries the Expenses of E and the items of the Bills of B give.
PoolValues(E, B) ==
    {[type |-> "expense", description |-> expenses[e].description,
      category |-> expenses[e].category, amount |-> expenses[e].total_amount,
      date |-> expenses[e].expense_date] : e \in E}
    \cup {[type |-> "fertilizer", description |-> fertilizers[f].name,
           category |-> fertilizers[f].category, amount |-> fertilizers[f].price,
           date |-> bills[fertilizers[f].bill_id].purchase_date] :
              f \in {g \in 1..Len(fertilizers) : fertilizers[g].bill_id \in B}}

PoolSize(E, B) ==
    Cardinality(E) + Cardinality({f \in 1..Len(fertilizers) : fertilizers[f].bill_id \in B})

\* How often v stands in a list.
CountIn(list, v) == Cardinality({i \in DOMAIN list : list[i] = v})

\* A list made of the entries of E and B: sorted by date, latest first, and
\* cut to its first 8.
MergedAndCut(list, E, B) ==
    /\ Len(list) = (IF PoolSize(E, B) < 8 THEN PoolSize(E, B) ELSE 8)
    /\ \A i \in DOMAIN list : CountIn(list, list[i]) <= PoolCount(E, B, list[i])
    /\ \A i, j \in DOMAIN list : i < j => list[i].date >= list[j].date
    /\ \A v \in PoolValues(E, B) :
           CountIn(list, v) < PoolCount(E, B, v) => \A i \in DOMAIN list : list[i].date >= v.date

\* C25: every entry of recent_activities is one of the user's 5 most recent
\* Expenses or an item of one of the user's 3 most recent Bills, dated with
\* the Bill's purchase date; the list is these entries sorted by date,
\* latest first, cut to the first 8.
C25_RecentFromLatestRows ==
    resp.route = "index" =>
        \E E \in MostRecentExpenses(5), B \in MostRecentBills(3) :
            MergedAndCut(resp.dashboard.recent_activities, E, B)

\* The dashboard of a user with more than 5 Expenses and more than 3 Bills,
\* one of them with two items: 8 entries are shown and others are left out.
C25_Witness ==
    /\ resp.route = "index"
    /\ Cardinality(Mine(expenses)) > 5
    /\ Cardinality(Mine(bills)) > 3
    /\ \E b \in Mine(bills) : Cardinality(ItemsOf(fertilizers, b)) = 2
    /\ Len(resp.dashboard.recent_activities) = 8
    /\ \E i, j \in 1..8 : /\ resp.dashboard.recent_activities[i].type = "expense"
                           /\ resp.dashboard.recent_activities[j].type = "fertilizer"
                           /\ resp.dashboard.recent_activities[j].date = Today

\* The k-th and the k+1-th accepted row of file share a key and have a
\* skipped or rejected row between them.
Interrupted(file, k) ==
    /\ AcceptedRows(file)[k + 1] > AcceptedRows(file)[k] + 1
    /\ RowKey(file[AcceptedRows(file)[k + 1]]) = RowKey(file[AcceptedRows(file)[k]])

\* The place, among the Fertilizers of the import, of the item the k-th
\* accepted row gave (the row has a name).
ItemOfRow(file, k) ==
    resp.first_fert + Cardinality({j \in 1..k : Named(file[AcceptedRows(file)[j]])})

\* The accepted rows at which the key is another than that of the accepted
\* row before.
KeyChanges(file) ==
    {k \in 1..Len(AcceptedRows(file)) :
        k = 1 \/ RowKey(file[AcceptedRows(file)[k]]) # RowKey(file[AcceptedRows(file)[k - 1]])}

\* C26: a skipped or rejected row does not end the Bill in progress: of two
\* accepted rows that share a key and have only such rows between them the
\* second starts no Bill, and their items are in the same Bill.
C26_BadRowsDoNotSplitBills ==
    ImportDone =>
        /\ resp.bills_created = Cardinality(KeyChanges(resp.file))
        /\ Len(bills) = resp.first_bill + Cardinality(KeyChanges(resp.file))
        /\ Len(fertilizers) = ItemOfRow(resp.file, Len(AcceptedRows(resp.file)))
        /\ \A k \in 1..(Len(AcceptedRows(resp.file)) - 1) :
               (/\ Interrupted(resp.file, k)
                /\ Named(resp.file[AcceptedRows(resp.file)[k]])
                /\ Named(resp.file[AcceptedRows(resp.file)[k + 1]])) =>
                   fertilizers[ItemOfRow(resp.file, k)].bill_id
                       = fertilizers[ItemOfRow(resp.file, k + 1)].bill_id

\* A file of a valid row, a skipped or rejected row and a valid row of the
\* same key has given one Bill of two items.
C26_Witness ==
    /\ ImportDone
    /\ Len(resp.file) = 4
    /\ Len(AcceptedRows(resp.file)) = 2
    /\ Interrupted(resp.file, 1)
    /\ resp.bills_created = 1
    /\ Cardinality(ItemsOf(fertilizers, Len(bills))) = 2

\* The accepted rows of the stretch that begins at key change s.
Stretch(file, s) ==
    {k \in s..Len(AcceptedRows(file)) : \A j \in (s + 1)..k : j \notin KeyChanges(file)}

\* The Bill the import made at key change s.
BillAt(file, s) == resp.first_bill + Cardinality({t \in KeyChanges(file) : t <= s})

\* C27: an accepted row without an item name whose key differs from the
\* key in progress starts a Bill that bills_created counts; the row gives
\* no item, and a Bill none of whose rows has a name is committed with no
\* item and a total of 0.
C27_UnnamedRowStartsBill ==
    ImportDone =>
        /\ resp.bills_created = Cardinality(KeyChanges(resp.file))
        /\ Len(bills) = resp.first_bill + resp.bills_created
        /\ \A s \in KeyChanges(resp.file) :
               ~Named(resp.file[AcceptedRows(resp.file)[s]]) =>
                   /\ bills[BillAt(resp.file, s)].user_id = resp.user
                   /\ bills[BillAt(resp.file, s)].purchase_date
                          = RowKey(resp.file[AcceptedRows(resp.file)[s]])[1]
                   /\ Cardinality(ItemsOf(fertilizers, BillAt(resp.file, s)))
                          = Cardinality({k \in Stretch(resp.file, s) :
                                            Named(resp.file[AcceptedRows(resp.file)[k]])})
                   /\ (\A k \in Stretch(resp.file, s) :
                           ~Named(resp.file[AcceptedRows(resp.file)[k]])) =>
                          /\ ItemsOf(fertilizers, BillAt(resp.file, s)) = {}
                          /\ bills[BillAt(resp.file, s)].total_amount = 0

\* A row without a name has followed a row of another key: two Bills are
\* counted, and the second is stored with no item and a total of 0.
C27_Witness ==
    /\ ImportDone
    /\ Len(resp.file) = 3
    /\ Accepted(resp.file[2]) /\ Named(resp.file[2])
    /\ Accepted(resp.file[3]) /\ ~Named(resp.file[3])
    /\ resp.bills_created = 2 /\ resp.imported_count = 1
    /\ ItemsOf(fertilizers, Len(bills)) = {}
    /\ bills[Len(bills)].total_amount = 0

\* C28: every Expense that links to a Supplier or to a Field links to a row
\* of the Expense's own user.
C28_LinksStayWithOwner ==
    \A i \in 1..Len(expenses) :
        /\ expenses[i].supplier_id # None =>
               /\ expenses[i].supplier_id[1] \in 1..Len(suppliers)
               /\ suppliers[expenses[i].supplier_id[1]].user_id = expenses[i].user_id
        /\ expenses[i].field_id # None =>
               /\ expenses[i].field_id[1] \in 1..Len(fields)
               /\ fields[expenses[i].field_id[1]].user_id = expenses[i].user_id

\* A user has stored an Expense with a Supplier of their own while another
\* user had a Supplier too.
C28_Witness ==
    /\ resp.route = "add_comprehensive_expense" /\ resp.status = "ok"
    /\ expenses # <<>>
    /\ expenses[Len(expenses)].supplier_id # None
    /\ expenses[Len(expenses)].user_id = resp.user
    /\ \E i \in 1..Len(suppliers) : suppliers[i].user_id # resp.user

====
